---- MODULE Spec2Model ----
(***************************************************************************)
(* Model of the on-chain rebalance authorization protocol of the Adaptive  *)
(* Liquidity Orchestrator: the VaultManager ledger                         *)
(* (contracts/VaultManager.sol) and the RebalanceExecutor                  *)
(* (RebalanceExecutor contract, second half of contracts/mocks/            *)
(* MockOracle.sol).                                                        *)
(*                                                                         *)
(* One action models one external transaction.  A transaction that reverts *)
(* leaves every contract variable unchanged (EVM revert semantics) and     *)
(* only records its error in the observation variable `last`.              *)
(***************************************************************************)
EXTENDS Integers, Sequences, FiniteSets, TLC

\* ------------------------------------------------------------------------
\* Bounds of the model
\* ------------------------------------------------------------------------
MaxTime == 3        \* block.timestamp ranges over StartTime..MaxTime
MaxNonce == 1       \* payload nonces range over 0..MaxNonce
MaxVaults == 2      \* createVault is enabled while vaultCount < MaxVaults
MaxAge == 1         \* setMaxPayloadAge / setMaxExpiryDuration take 1..MaxAge

MaxJobs == 2        \* generateId() returns one of MaxJobs ids
StartTime == 1      \* block.timestamp of the first transaction

\* ------------------------------------------------------------------------
\* Addresses
\* ------------------------------------------------------------------------
ZERO == "0x0"                      \* address(0)
VM == "vaultManager"               \* address of the VaultManager contract
EXECUTOR == "executor"             \* address of the RebalanceExecutor
OWNER == "owner"                   \* deployer and owner() of both contracts
Accounts == {"owner", "alice", "bob"}   \* externally owned accounts
UNKNOWN == "0xrecovered"           \* address recovered from a signature over
                                   \* another digest: an account nobody uses
Tokens == {"WBNB", "USDT"}
Holders == Accounts \cup {VM}

\* ------------------------------------------------------------------------
\* Program constants.  Token amounts are scaled by 10^4 with respect to the
\* source (MIN_DEPOSIT is 1e6 there) so that every product the contract
\* computes stays inside TLC's integer range.
\* ------------------------------------------------------------------------
MIN_DEPOSIT == 100
DEFAULT_FEE_BPS == 50
MAX_FEE_BPS == 1000
BPS_DENOMINATOR == 10000
DEFAULT_MAX_PAYLOAD_AGE == 600
DEFAULT_MAX_EXPIRY_DURATION == 3600
INITIAL_BALANCE == 1000            \* tokens minted to each account up front

IdSpace == 1..(MaxVaults + 1)      \* vault ids in use; MaxVaults + 1 is never created

\* ------------------------------------------------------------------------
\* RebalancePayload, action data and signatures
\* ------------------------------------------------------------------------
MALFORMED == [malformed |-> TRUE]  \* bytes that abi.decode rejects

ActionDatas ==
    { [tickLower |-> -900000, tickUpper |-> 900000, pct |-> 30],
      [tickLower |-> -120, tickUpper |-> 120, pct |-> 0] }

Payloads ==
    [ vaultId : IdSpace,
      nonce : 0..MaxNonce,
      actionData : ActionDatas \cup {MALFORMED},
      issuedAt : StartTime..MaxTime,
      expiry : StartTime..MaxTime ]

REBALANCE_TYPEHASH == "RebalancePayload"

\* keccak256 is collision resistant: it is modelled as an injective tag.
Keccak(x) == <<"k", x>>

\* EIP712 domain of a deployment: name, version, chain and verifying contract.
CHAIN_ID == 5611
Domain(contract) == <<"AdaptiveLiquidityOrchestrator", "1", CHAIN_ID, contract>>
ThisDomain == Domain(EXECUTOR)
OtherDomain == Domain("otherExecutor")

StructHash(p) ==
    Keccak(<<REBALANCE_TYPEHASH, p.vaultId, p.nonce, Keccak(p.actionData),
             p.issuedAt, p.expiry>>)

\* typed-data hash that leaves the domain separator out (mutant)
HashTypedDataV4_NoDomain(domain, structHash) == Keccak(<<"1901", structHash>>)

HashTypedDataV4(domain, structHash) == Keccak(<<"1901", domain, structHash>>)

\* getPayloadHash
PayloadHash(p) == HashTypedDataV4(ThisDomain, StructHash(p))

\* A signature made with `key` over the typed-data hash of `payload` in
\* `domain`.  BADSIG is a byte string that ECDSA.recover rejects.
Sign(key, domain, payload) == [signer |-> key, domain |-> domain, payload |-> payload]
BADSIG == [signer |-> ZERO, domain |-> <<>>, payload |-> MALFORMED]

\* ECDSA.recover: the signing key when the digest is the signed one, some
\* unrelated address otherwise.
Recover(digest, sig) ==
    IF HashTypedDataV4(sig.domain, StructHash(sig.payload)) = digest
    THEN sig.signer
    ELSE UNKNOWN

\* ------------------------------------------------------------------------
\* State
\* ------------------------------------------------------------------------
VARIABLES
    now,                 \* block.timestamp
    \* RebalanceExecutor
    vaultManager,        \* address the executor calls
    authorizedSigners,   \* mapping(address => bool)
    nonces,              \* mapping(address => uint256)
    maxPayloadAge,
    maxExpiryDuration,
    \* VaultManager
    vaultCount,
    vaults,              \* mapping(uint256 => VaultInfo)
    vaultStrategies,     \* mapping(uint256 => StrategyParams)
    userShares,          \* mapping(uint256 => mapping(address => uint256))
    authorizedRelayers,  \* mapping(address => bool)
    protocolFeeBps,
    feeRecipient,
    paused,              \* Pausable
    frame,               \* ReentrancyGuard: the nonReentrant call that is inside
                         \* an external token transfer (NoFrame when _status is
                         \* NOT_ENTERED)
    \* ERC-20 tokens
    balances,            \* balanceOf, per token
    blocked,             \* tokens whose transfers currently revert
    \* observation
    last,                \* the transaction just mined: entry point, caller,
                         \* arguments and outcome (NoCall once acknowledged)
    executed,            \* log of the payload+signature pairs that executed
                         \* successfully, kept by Observe
    \* backend (relayer API)
    jobs,                \* Map<string, RelayerJob>, NoJob where the map has no entry
    timers               \* job ids whose setTimeout callback has not run yet

execVars == <<vaultManager, authorizedSigners, nonces, maxPayloadAge, maxExpiryDuration>>
ledgerVars == <<vaultCount, vaults, vaultStrategies, userShares, authorizedRelayers,
                protocolFeeBps, feeRecipient, paused>>
vaultVars == <<vaultCount, vaults, vaultStrategies, userShares>>
tokenVars == <<balances, blocked>>
relayVars == <<jobs, timers>>
vars == <<now, execVars, ledgerVars, tokenVars, frame, last, executed, frame, relayVars>>

RelayerSpace == Accounts \cup {EXECUTOR}

NoCall == [op |-> "none"]
NoFrame == [op |-> "none"]

\* Job ids generateId() can return (randomUUID), and the value standing for
\* "no entry" in the jobs map.
JobIds == 1..MaxJobs
NoJob == [status |-> "none"]

\* The zero value a mapping returns for a key never written.
EmptyVault ==
    [ vaultId |-> 0, owner |-> ZERO, tokenA |-> ZERO, tokenB |-> ZERO,
      totalShares |-> 0, totalTokenA |-> 0, totalTokenB |-> 0,
      strategy |-> ZERO, lastRebalance |-> 0, isActive |-> FALSE ]

EmptyStrategy ==
    [ tickLower |-> 0, tickUpper |-> 0, rebalanceThreshold |-> 0, autoRebalance |-> FALSE ]

DEFAULT_STRATEGY_PARAMS ==
    [ tickLower |-> -887220, tickUpper |-> 887220, rebalanceThreshold |-> 500,
      autoRebalance |-> TRUE ]

Init ==
    /\ now = StartTime
    /\ vaultManager = VM
    /\ authorizedSigners = [a \in Accounts |-> FALSE]
    /\ nonces = [a \in Accounts |-> 0]
    /\ maxPayloadAge = DEFAULT_MAX_PAYLOAD_AGE
    /\ maxExpiryDuration = DEFAULT_MAX_EXPIRY_DURATION
    /\ vaultCount = 0
    /\ vaults = [i \in IdSpace |-> EmptyVault]
    /\ vaultStrategies = [i \in IdSpace |-> EmptyStrategy]
    /\ userShares = [i \in IdSpace |-> [a \in Accounts |-> 0]]
    /\ authorizedRelayers = [a \in RelayerSpace |-> FALSE]
    /\ protocolFeeBps = DEFAULT_FEE_BPS
    /\ feeRecipient = OWNER
    /\ paused = FALSE
    /\ balances = [t \in Tokens |-> [h \in Holders |-> IF h = VM THEN 0 ELSE INITIAL_BALANCE]]
    /\ blocked = {}
    /\ frame = NoFrame
    /\ last = NoCall
    /\ executed = {}
    /\ jobs = [j \in JobIds |-> NoJob]
    /\ timers = {}

\* A transaction is mined when the previous one has been acknowledged.
Idle == last = NoCall

Call(op, caller, args, err) == [op |-> op, caller |-> caller, args |-> args, err |-> err]

\* ------------------------------------------------------------------------
\* ERC-20 transfers (SafeERC20 over a standard token)
\* ------------------------------------------------------------------------
CanTransfer(bal, token, from, amount) ==
    /\ token \notin blocked
    /\ bal[token][from] >= amount

Transfer(bal, token, from, to, amount) ==
    IF from = to THEN bal
    ELSE [bal EXCEPT ![token][from] = @ - amount, ![token][to] = @ + amount]

\* ------------------------------------------------------------------------
\* VaultManager
\* ------------------------------------------------------------------------
\* _sqrt: Babylonian method
RECURSIVE SqrtLoop(_, _, _)
SqrtLoop(x, y, z) ==
    IF z < y THEN SqrtLoop(x, z, (x \div z + z) \div 2) ELSE y

_sqrt(x) == IF x = 0 THEN 0 ELSE SqrtLoop(x, x, (x + 1) \div 2)

\* the guard never rejects (mutant)
nonReentrantErr_Off(f) == "ok"

\* nonReentrant (ReentrancyGuard): a call is rejected while another
\* nonReentrant call of the contract has not returned.
nonReentrantErr(f) ==
    IF f # NoFrame THEN "ReentrancyGuardReentrantCall" ELSE "ok"

\* onlyOwner (Ownable)
OnlyOwnerErr(caller) ==
    IF caller # OWNER THEN "OwnableUnauthorizedAccount" ELSE "ok"

\* createVault without the check that the tokens differ (mutant)
createVaultErr_AllowsIdentical(tokenA, tokenB) ==
    IF paused THEN "EnforcedPause"
    ELSE IF tokenA = ZERO \/ tokenB = ZERO THEN "InvalidTokens"
    ELSE "ok"

createVaultErr(tokenA, tokenB) ==
    IF paused THEN "EnforcedPause"
    ELSE IF tokenA = ZERO \/ tokenB = ZERO THEN "InvalidTokens"
    ELSE IF tokenA = tokenB THEN "InvalidTokens"
    ELSE "ok"

\* createVault that leaves the new vault inactive until it is activated
\* (mutant)
createVault_Inactive(caller, tokenA, tokenB, params) ==
    /\ Idle
    /\ vaultCount < MaxVaults
    /\ LET err == createVaultErr(tokenA, tokenB)
           vaultId == vaultCount + 1
       IN  /\ last' = Call("createVault", caller, <<tokenA, tokenB, params>>, err)
           /\ IF err = "ok"
              THEN /\ vaultCount' = vaultId
                   /\ vaults' = [vaults EXCEPT ![vaultId] =
                         [ vaultId |-> vaultId, owner |-> caller,
                           tokenA |-> tokenA, tokenB |-> tokenB,
                           totalShares |-> 0, totalTokenA |-> 0, totalTokenB |-> 0,
                           strategy |-> ZERO, lastRebalance |-> now,
                           isActive |-> FALSE ]]
                   /\ vaultStrategies' = [vaultStrategies EXCEPT ![vaultId] = params]
              ELSE UNCHANGED <<vaultCount, vaults, vaultStrategies>>
    /\ UNCHANGED <<now, relayVars, execVars, userShares, authorizedRelayers, protocolFeeBps,
                   feeRecipient, paused, tokenVars, executed, frame>>

\* createVault that stores every vault under id 1 (mutant)
createVault_ReusesId(caller, tokenA, tokenB, params) ==
    /\ Idle
    /\ vaultCount < MaxVaults
    /\ LET err == createVaultErr(tokenA, tokenB)
           vaultId == 1
       IN  /\ last' = Call("createVault", caller, <<tokenA, tokenB, params>>, err)
           /\ IF err = "ok"
              THEN /\ vaultCount' = vaultCount + 1
                   /\ vaults' = [vaults EXCEPT ![vaultId] =
                         [ vaultId |-> vaultId, owner |-> caller,
                           tokenA |-> tokenA, tokenB |-> tokenB,
                           totalShares |-> 0, totalTokenA |-> 0, totalTokenB |-> 0,
                           strategy |-> ZERO, lastRebalance |-> now,
                           isActive |-> TRUE ]]
                   /\ vaultStrategies' = [vaultStrategies EXCEPT ![vaultId] = params]
                   /\ UNCHANGED userShares
              ELSE UNCHANGED vaultVars
    /\ UNCHANGED <<now, relayVars, execVars, authorizedRelayers, protocolFeeBps, feeRecipient,
                   paused, tokenVars, executed, frame>>

createVault(caller, tokenA, tokenB, params) ==
    /\ Idle
    /\ vaultCount < MaxVaults
    /\ LET err == createVaultErr(tokenA, tokenB)
           vaultId == vaultCount + 1
       IN  /\ last' = Call("createVault", caller, <<tokenA, tokenB, params>>, err)
           /\ IF err = "ok"
              THEN /\ vaultCount' = vaultId
                   /\ vaults' = [vaults EXCEPT ![vaultId] =
                         [ vaultId |-> vaultId, owner |-> caller,
                           tokenA |-> tokenA, tokenB |-> tokenB,
                           totalShares |-> 0, totalTokenA |-> 0, totalTokenB |-> 0,
                           strategy |-> ZERO, lastRebalance |-> now,
                           isActive |-> TRUE ]]
                   /\ vaultStrategies' = [vaultStrategies EXCEPT ![vaultId] = params]
                   /\ UNCHANGED userShares
              ELSE UNCHANGED vaultVars
    /\ UNCHANGED <<now, relayVars, execVars, authorizedRelayers, protocolFeeBps, feeRecipient,
                   paused, tokenVars, executed, frame>>

\* shares of the larger of the two proportions (mutant)
depositShares_Max(v, amountA, amountB) ==
    IF v.totalShares = 0
    THEN _sqrt(amountA * amountB)
    ELSE LET shareA == (amountA * v.totalShares) \div v.totalTokenA
             shareB == (amountB * v.totalShares) \div v.totalTokenB
         IN  IF shareA < shareB THEN shareB ELSE shareA

\* proportions rounded up instead of down (mutant)
depositShares_RoundUp(v, amountA, amountB) ==
    IF v.totalShares = 0
    THEN _sqrt(amountA * amountB)
    ELSE LET shareA == (amountA * v.totalShares + v.totalTokenA - 1) \div v.totalTokenA
             shareB == (amountB * v.totalShares + v.totalTokenB - 1) \div v.totalTokenB
         IN  IF shareA < shareB THEN shareA ELSE shareB

\* Shares minted by a deposit into vault v.
depositShares(v, amountA, amountB) ==
    IF v.totalShares = 0
    THEN _sqrt(amountA * amountB)
    ELSE LET shareA == (amountA * v.totalShares) \div v.totalTokenA
             shareB == (amountB * v.totalShares) \div v.totalTokenB
         IN  IF shareA < shareB THEN shareA ELSE shareB

\* the minimum is checked before the vault is looked up (mutant)
depositErr_MinimumFirst(caller, vaultId, amountA, amountB) ==
    LET v == vaults[vaultId] IN
    IF nonReentrantErr(frame) # "ok" THEN nonReentrantErr(frame)
    ELSE IF paused THEN "EnforcedPause"
    ELSE IF amountA < MIN_DEPOSIT \/ amountB < MIN_DEPOSIT THEN "InsufficientDeposit"
    ELSE IF v.owner = ZERO THEN "VaultNotFound"
    ELSE IF ~v.isActive THEN "VaultInactive"
    ELSE IF ~CanTransfer(balances, v.tokenA, caller, amountA) THEN "TransferFailed"
    ELSE IF ~CanTransfer(balances, v.tokenB, caller, amountB) THEN "TransferFailed"
    ELSE IF v.totalShares # 0 /\ (v.totalTokenA = 0 \/ v.totalTokenB = 0) THEN "Panic"
    ELSE "ok"

depositErr(caller, vaultId, amountA, amountB) ==
    LET v == vaults[vaultId] IN
    IF nonReentrantErr(frame) # "ok" THEN nonReentrantErr(frame)
    ELSE IF paused THEN "EnforcedPause"
    ELSE IF v.owner = ZERO THEN "VaultNotFound"
    ELSE IF ~v.isActive THEN "VaultInactive"
    ELSE IF amountA < MIN_DEPOSIT \/ amountB < MIN_DEPOSIT THEN "InsufficientDeposit"
    ELSE IF ~CanTransfer(balances, v.tokenA, caller, amountA) THEN "TransferFailed"
    ELSE IF ~CanTransfer(balances, v.tokenB, caller, amountB) THEN "TransferFailed"
    ELSE IF v.totalShares # 0 /\ (v.totalTokenA = 0 \/ v.totalTokenB = 0) THEN "Panic"
    ELSE "ok"

deposit(caller, vaultId, amountA, amountB) ==
    /\ Idle
    /\ LET err == depositErr(caller, vaultId, amountA, amountB)
           v == vaults[vaultId]
       IN  /\ last' = Call("deposit", caller, <<vaultId, amountA, amountB>>, err)
           /\ IF err = "ok"
              THEN LET shares == depositShares(v, amountA, amountB) IN
                   /\ balances' = Transfer(Transfer(balances, v.tokenA, caller, VM, amountA),
                                           v.tokenB, caller, VM, amountB)
                   /\ vaults' = [vaults EXCEPT ![vaultId].totalShares = @ + shares,
                                               ![vaultId].totalTokenA = @ + amountA,
                                               ![vaultId].totalTokenB = @ + amountB]
                   /\ userShares' = [userShares EXCEPT ![vaultId][caller] = @ + shares]
              ELSE UNCHANGED <<balances, vaults, userShares>>
    /\ UNCHANGED <<now, relayVars, execVars, vaultCount, vaultStrategies, authorizedRelayers,
                   protocolFeeBps, feeRecipient, paused, blocked, executed, frame>>

\* payout computed against one share more than exist (mutant)
withdrawAmount_ExtraShare(shares, total, totalShares) ==
    (shares * total) \div (totalShares + 1)

\* payout rounded up instead of down (mutant)
withdrawAmount_RoundUp(shares, total, totalShares) ==
    (shares * total + totalShares - 1) \div totalShares

\* Tokens paid out by a withdraw of `shares`: (shares * total) / totalShares
withdrawAmount(shares, total, totalShares) == (shares * total) \div totalShares

\* withdraw without its share-balance check (mutant)
withdrawErr_NoShareCheck(caller, vaultId, shares) ==
    LET v == vaults[vaultId] IN
    IF nonReentrantErr(frame) # "ok" THEN nonReentrantErr(frame)
    ELSE IF v.owner = ZERO THEN "VaultNotFound"
    ELSE IF v.totalShares = 0 THEN "Panic"
    ELSE "ok"

\* withdraw gated by the pause like deposit (mutant)
withdrawErr_WhenNotPaused(caller, vaultId, shares) ==
    LET v == vaults[vaultId] IN
    IF nonReentrantErr(frame) # "ok" THEN nonReentrantErr(frame)
    ELSE IF paused THEN "EnforcedPause"
    ELSE IF v.owner = ZERO THEN "VaultNotFound"
    ELSE IF userShares[vaultId][caller] < shares THEN "InsufficientShares"
    ELSE IF v.totalShares = 0 THEN "Panic"
    ELSE IF shares > v.totalShares THEN "Panic"
    ELSE LET amountA == withdrawAmount(shares, v.totalTokenA, v.totalShares)
             amountB == withdrawAmount(shares, v.totalTokenB, v.totalShares)
         IN  IF ~CanTransfer(balances, v.tokenA, VM, amountA) THEN "TransferFailed"
             ELSE IF ~CanTransfer(balances, v.tokenB, VM, amountB) THEN "TransferFailed"
             ELSE "ok"

withdrawErr(caller, vaultId, shares) ==
    LET v == vaults[vaultId] IN
    IF nonReentrantErr(frame) # "ok" THEN nonReentrantErr(frame)
    ELSE IF v.owner = ZERO THEN "VaultNotFound"
    ELSE IF userShares[vaultId][caller] < shares THEN "InsufficientShares"
    ELSE IF v.totalShares = 0 THEN "Panic"
    ELSE IF shares > v.totalShares THEN "Panic"
    ELSE LET amountA == withdrawAmount(shares, v.totalTokenA, v.totalShares)
             amountB == withdrawAmount(shares, v.totalTokenB, v.totalShares)
         IN  IF ~CanTransfer(balances, v.tokenA, VM, amountA) THEN "TransferFailed"
             ELSE IF ~CanTransfer(balances, v.tokenB, VM, amountB) THEN "TransferFailed"
             ELSE "ok"

\* withdraw that forgets to burn the caller's shares (mutant)
withdraw_KeepsShares(caller, vaultId, shares) ==
    /\ Idle
    /\ LET err == withdrawErr(caller, vaultId, shares)
           v == vaults[vaultId]
       IN  /\ last' = Call("withdraw", caller, <<vaultId, shares>>, err)
           /\ IF err = "ok"
              THEN LET amountA == withdrawAmount(shares, v.totalTokenA, v.totalShares)
                       amountB == withdrawAmount(shares, v.totalTokenB, v.totalShares)
                   IN  /\ vaults' = [vaults EXCEPT ![vaultId].totalShares = @ - shares,
                                                   ![vaultId].totalTokenA = @ - amountA,
                                                   ![vaultId].totalTokenB = @ - amountB]
                       /\ balances' = Transfer(Transfer(balances, v.tokenA, VM, caller, amountA),
                                               v.tokenB, VM, caller, amountB)
              ELSE UNCHANGED <<balances, vaults>>
    /\ UNCHANGED <<now, relayVars, execVars, vaultCount, vaultStrategies, userShares, authorizedRelayers,
                   protocolFeeBps, feeRecipient, paused, blocked, executed, frame>>

withdraw(caller, vaultId, shares) ==
    /\ Idle
    /\ LET err == withdrawErr(caller, vaultId, shares)
           v == vaults[vaultId]
       IN  /\ last' = Call("withdraw", caller, <<vaultId, shares>>, err)
           /\ IF err = "ok"
              THEN LET amountA == withdrawAmount(shares, v.totalTokenA, v.totalShares)
                       amountB == withdrawAmount(shares, v.totalTokenB, v.totalShares)
                   IN  /\ vaults' = [vaults EXCEPT ![vaultId].totalShares = @ - shares,
                                                   ![vaultId].totalTokenA = @ - amountA,
                                                   ![vaultId].totalTokenB = @ - amountB]
                       /\ userShares' = [userShares EXCEPT ![vaultId][caller] = @ - shares]
                       /\ balances' = Transfer(Transfer(balances, v.tokenA, VM, caller, amountA),
                                               v.tokenB, VM, caller, amountB)
              ELSE UNCHANGED <<balances, vaults, userShares>>
    /\ UNCHANGED <<now, relayVars, execVars, vaultCount, vaultStrategies, authorizedRelayers,
                   protocolFeeBps, feeRecipient, paused, blocked, executed, frame>>

\* fee rounded up instead of down (mutant)
rebalanceFee_RoundUp(total) ==
    (total * protocolFeeBps + BPS_DENOMINATOR - 1) \div BPS_DENOMINATOR

\* Protocol fee taken by a rebalance from a recorded token total.
rebalanceFee(total) == (total * protocolFeeBps) \div BPS_DENOMINATOR

\* rebalance without its relayer gate (mutant)
rebalanceErr_NoGate(sender, vaultId, strategyData) ==
    LET v == vaults[vaultId]
        feeA == rebalanceFee(v.totalTokenA)
        feeB == rebalanceFee(v.totalTokenB)
    IN
    IF nonReentrantErr(frame) # "ok" THEN nonReentrantErr(frame)
    ELSE IF paused THEN "EnforcedPause"
    ELSE IF v.owner = ZERO THEN "VaultNotFound"
    ELSE IF ~v.isActive THEN "VaultInactive"
    ELSE IF strategyData = MALFORMED THEN "DecodeError"
    ELSE IF feeA > 0 /\ ~CanTransfer(balances, v.tokenA, VM, feeA) THEN "TransferFailed"
    ELSE IF feeB > 0 /\ ~CanTransfer(balances, v.tokenB, VM, feeB) THEN "TransferFailed"
    ELSE "ok"

\* Outcome of VaultManager.rebalance when called by msg.sender = sender.
rebalanceErr(sender, vaultId, strategyData) ==
    LET v == vaults[vaultId]
        feeA == rebalanceFee(v.totalTokenA)
        feeB == rebalanceFee(v.totalTokenB)
    IN
    IF nonReentrantErr(frame) # "ok" THEN nonReentrantErr(frame)
    ELSE IF paused THEN "EnforcedPause"
    ELSE IF ~authorizedRelayers[sender] /\ sender # OWNER THEN "UnauthorizedRelayer"
    ELSE IF v.owner = ZERO THEN "VaultNotFound"
    ELSE IF ~v.isActive THEN "VaultInactive"
    ELSE IF strategyData = MALFORMED THEN "DecodeError"
    ELSE IF feeA > 0 /\ ~CanTransfer(balances, v.tokenA, VM, feeA) THEN "TransferFailed"
    ELSE IF feeB > 0 /\ ~CanTransfer(balances, v.tokenB, VM, feeB) THEN "TransferFailed"
    ELSE "ok"

\* rebalance that applies the decoded percentage to the vault (mutant)
rebalanceApply_UsesPct(vaultId, strategyData) ==
    LET v == vaults[vaultId]
        feeA == rebalanceFee(v.totalTokenA)
        feeB == rebalanceFee(v.totalTokenB)
    IN  /\ vaultStrategies' = [vaultStrategies EXCEPT
                                  ![vaultId].tickLower = strategyData.tickLower,
                                  ![vaultId].tickUpper = strategyData.tickUpper,
                                  ![vaultId].rebalanceThreshold = strategyData.pct]
        /\ vaults' = [vaults EXCEPT ![vaultId].lastRebalance = now,
                                    ![vaultId].totalTokenA = @ - feeA,
                                    ![vaultId].totalTokenB = @ - feeB]
        /\ balances' = Transfer(Transfer(balances, v.tokenA, VM, feeRecipient, feeA),
                                v.tokenB, VM, feeRecipient, feeB)
        /\ UNCHANGED <<vaultCount, userShares, authorizedRelayers, protocolFeeBps,
                       feeRecipient, paused, blocked>>

\* rebalance that pays the fee out without deducting it from the recorded
\* totals (mutant)
rebalanceApply_KeepsTotals(vaultId, strategyData) ==
    LET v == vaults[vaultId]
        feeA == rebalanceFee(v.totalTokenA)
        feeB == rebalanceFee(v.totalTokenB)
    IN  /\ vaultStrategies' = [vaultStrategies EXCEPT
                                  ![vaultId].tickLower = strategyData.tickLower,
                                  ![vaultId].tickUpper = strategyData.tickUpper]
        /\ vaults' = [vaults EXCEPT ![vaultId].lastRebalance = now]
        /\ balances' = Transfer(Transfer(balances, v.tokenA, VM, feeRecipient, feeA),
                                v.tokenB, VM, feeRecipient, feeB)
        /\ UNCHANGED <<vaultCount, userShares, authorizedRelayers, protocolFeeBps,
                       feeRecipient, paused, blocked>>

\* State change of a successful VaultManager.rebalance.
rebalanceApply(vaultId, strategyData) ==
    LET v == vaults[vaultId]
        feeA == rebalanceFee(v.totalTokenA)
        feeB == rebalanceFee(v.totalTokenB)
    IN  /\ vaultStrategies' = [vaultStrategies EXCEPT
                                  ![vaultId].tickLower = strategyData.tickLower,
                                  ![vaultId].tickUpper = strategyData.tickUpper]
        /\ vaults' = [vaults EXCEPT ![vaultId].lastRebalance = now,
                                    ![vaultId].totalTokenA = @ - feeA,
                                    ![vaultId].totalTokenB = @ - feeB]
        /\ balances' = Transfer(Transfer(balances, v.tokenA, VM, feeRecipient, feeA),
                                v.tokenB, VM, feeRecipient, feeB)
        /\ UNCHANGED <<vaultCount, userShares, authorizedRelayers, protocolFeeBps,
                       feeRecipient, paused, blocked>>

rebalance(caller, vaultId, strategyData) ==
    /\ Idle
    /\ LET err == rebalanceErr(caller, vaultId, strategyData)
       IN  /\ last' = Call("rebalance", caller, <<vaultId, strategyData>>, err)
           /\ IF err = "ok"
              THEN rebalanceApply(vaultId, strategyData)
              ELSE UNCHANGED <<ledgerVars, tokenVars>>
    /\ UNCHANGED <<now, relayVars, execVars, executed, frame>>

\* setRelayerAuthorization that refuses to write a flag that is already set
\* to the requested value (mutant)
setRelayerAuthorization_NoRepeat(caller, relayer, authorized) ==
    /\ Idle
    /\ LET err == IF OnlyOwnerErr(caller) # "ok" THEN OnlyOwnerErr(caller)
                  ELSE IF authorizedRelayers[relayer] = authorized THEN "AlreadySet"
                  ELSE "ok"
       IN  /\ last' = Call("setRelayerAuthorization", caller, <<relayer, authorized>>, err)
           /\ IF err = "ok"
              THEN authorizedRelayers' = [authorizedRelayers EXCEPT ![relayer] = authorized]
              ELSE UNCHANGED authorizedRelayers
    /\ UNCHANGED <<now, relayVars, execVars, vaultVars, protocolFeeBps, feeRecipient, paused,
                   tokenVars, executed, frame>>

setRelayerAuthorization(caller, relayer, authorized) ==
    /\ Idle
    /\ LET err == OnlyOwnerErr(caller)
       IN  /\ last' = Call("setRelayerAuthorization", caller, <<relayer, authorized>>, err)
           /\ IF err = "ok"
              THEN authorizedRelayers' = [authorizedRelayers EXCEPT ![relayer] = authorized]
              ELSE UNCHANGED authorizedRelayers
    /\ UNCHANGED <<now, relayVars, execVars, vaultVars, protocolFeeBps, feeRecipient, paused,
                   tokenVars, executed, frame>>

\* setProtocolFee without its ceiling (mutant)
setProtocolFeeErr_NoCeiling(caller, newFeeBps) ==
    IF caller # OWNER THEN "OwnableUnauthorizedAccount" ELSE "ok"

setProtocolFeeErr(caller, newFeeBps) ==
    IF caller # OWNER THEN "OwnableUnauthorizedAccount"
    ELSE IF ~(newFeeBps <= MAX_FEE_BPS) THEN "Fee too high"
    ELSE "ok"

setProtocolFee(caller, newFeeBps) ==
    /\ Idle
    /\ LET err == setProtocolFeeErr(caller, newFeeBps)
       IN  /\ last' = Call("setProtocolFee", caller, <<newFeeBps>>, err)
           /\ IF err = "ok"
              THEN protocolFeeBps' = newFeeBps
              ELSE UNCHANGED protocolFeeBps
    /\ UNCHANGED <<now, relayVars, execVars, vaultVars, authorizedRelayers, feeRecipient, paused,
                   tokenVars, executed, frame>>

setFeeRecipientErr(caller, _feeRecipient) ==
    IF caller # OWNER THEN "OwnableUnauthorizedAccount"
    ELSE IF _feeRecipient = ZERO THEN "ZeroAddress"
    ELSE "ok"

setFeeRecipient(caller, _feeRecipient) ==
    /\ Idle
    /\ LET err == setFeeRecipientErr(caller, _feeRecipient)
       IN  /\ last' = Call("setFeeRecipient", caller, <<_feeRecipient>>, err)
           /\ feeRecipient' = IF err = "ok" THEN _feeRecipient ELSE feeRecipient
    /\ UNCHANGED <<now, relayVars, execVars, vaultVars, authorizedRelayers, protocolFeeBps, paused,
                   tokenVars, executed, frame>>

\* pause without its owner check (mutant)
pauseErr_AnyCaller(caller) ==
    IF paused THEN "EnforcedPause" ELSE "ok"

pauseErr(caller) ==
    IF caller # OWNER THEN "OwnableUnauthorizedAccount"
    ELSE IF paused THEN "EnforcedPause"
    ELSE "ok"

pause(caller) ==
    /\ Idle
    /\ LET err == pauseErr(caller)
       IN  /\ last' = Call("pause", caller, <<>>, err)
           /\ paused' = IF err = "ok" THEN TRUE ELSE paused
    /\ UNCHANGED <<now, relayVars, execVars, vaultVars, authorizedRelayers, protocolFeeBps,
                   feeRecipient, tokenVars, executed, frame>>

unpauseErr(caller) ==
    IF caller # OWNER THEN "OwnableUnauthorizedAccount"
    ELSE IF ~paused THEN "ExpectedPause"
    ELSE "ok"

unpause(caller) ==
    /\ Idle
    /\ LET err == unpauseErr(caller)
       IN  /\ last' = Call("unpause", caller, <<>>, err)
           /\ paused' = IF err = "ok" THEN FALSE ELSE paused
    /\ UNCHANGED <<now, relayVars, execVars, vaultVars, authorizedRelayers, protocolFeeBps,
                   feeRecipient, tokenVars, executed, frame>>

attachStrategyErr(caller, vaultId) ==
    LET v == vaults[vaultId] IN
    IF v.owner = ZERO THEN "VaultNotFound"
    ELSE IF ~(caller = v.owner \/ caller = OWNER) THEN "Unauthorized"
    ELSE "ok"

\* attachStrategy that stamps the vault as rebalanced (mutant)
attachStrategy_Stamps(caller, vaultId, strategy) ==
    /\ Idle
    /\ LET err == attachStrategyErr(caller, vaultId)
       IN  /\ last' = Call("attachStrategy", caller, <<vaultId, strategy>>, err)
           /\ IF err = "ok"
              THEN vaults' = [vaults EXCEPT ![vaultId].strategy = strategy,
                                           ![vaultId].lastRebalance = now]
              ELSE UNCHANGED vaults
    /\ UNCHANGED <<now, relayVars, execVars, vaultCount, vaultStrategies, userShares,
                   authorizedRelayers, protocolFeeBps, feeRecipient, paused,
                   tokenVars, executed, frame>>

attachStrategy(caller, vaultId, strategy) ==
    /\ Idle
    /\ LET err == attachStrategyErr(caller, vaultId)
       IN  /\ last' = Call("attachStrategy", caller, <<vaultId, strategy>>, err)
           /\ IF err = "ok"
              THEN vaults' = [vaults EXCEPT ![vaultId].strategy = strategy]
              ELSE UNCHANGED vaults
    /\ UNCHANGED <<now, relayVars, execVars, vaultCount, vaultStrategies, userShares,
                   authorizedRelayers, protocolFeeBps, feeRecipient, paused,
                   tokenVars, executed, frame>>

\* ------------------------------------------------------------------------
\* VaultManager, one step per external token transfer.  A token transfer
\* hands control to code outside the ledger (the token, or a hook of the
\* sender or of the recipient), which may call any entry point of the
\* ledger or of the executor before it returns, or revert.  While `frame`
\* holds a call, the entry points above are those nested calls.
\* ------------------------------------------------------------------------
\* The storage that the revert of the transaction restores.
Saved ==
    [ vaultManager |-> vaultManager, authorizedSigners |-> authorizedSigners,
      nonces |-> nonces, maxPayloadAge |-> maxPayloadAge,
      maxExpiryDuration |-> maxExpiryDuration,
      vaultCount |-> vaultCount, vaults |-> vaults,
      vaultStrategies |-> vaultStrategies, userShares |-> userShares,
      authorizedRelayers |-> authorizedRelayers, protocolFeeBps |-> protocolFeeBps,
      feeRecipient |-> feeRecipient, paused |-> paused, balances |-> balances ]

\* Control is inside the token transfer `pc` of the nonReentrant call `frame`.
InTransfer(op, pc) == frame # NoFrame /\ frame.op = op /\ frame.pc = pc /\ last = NoCall

\* deposit up to the call of safeTransferFrom for tokenA
depositEnter(caller, vaultId, amountA, amountB) ==
    /\ Idle
    /\ depositErr(caller, vaultId, amountA, amountB) = "ok"
    /\ frame' = [ op |-> "deposit", caller |-> caller,
                  args |-> <<vaultId, amountA, amountB>>, pc |-> "transferA",
                  amounts |-> <<amountA, amountB>>, saved |-> Saved ]
    /\ UNCHANGED <<now, relayVars, execVars, ledgerVars, tokenVars, last, executed>>

\* safeTransferFrom for tokenA returns, safeTransferFrom for tokenB is called
depositTransferA ==
    /\ InTransfer("deposit", "transferA")
    /\ LET v == vaults[frame.args[1]] IN
       /\ CanTransfer(balances, v.tokenA, frame.caller, frame.amounts[1])
       /\ balances' = Transfer(balances, v.tokenA, frame.caller, VM, frame.amounts[1])
    /\ frame' = [frame EXCEPT !.pc = "transferB"]
    /\ UNCHANGED <<now, relayVars, execVars, ledgerVars, blocked, last, executed>>

\* safeTransferFrom for tokenB returns; shares are minted and deposit returns
depositTransferB ==
    /\ InTransfer("deposit", "transferB")
    /\ LET vaultId == frame.args[1]
           v == vaults[vaultId]
           amountA == frame.amounts[1]
           amountB == frame.amounts[2]
           shares == depositShares(v, amountA, amountB)
       IN  /\ CanTransfer(balances, v.tokenB, frame.caller, amountB)
           /\ balances' = Transfer(balances, v.tokenB, frame.caller, VM, amountB)
           /\ vaults' = [vaults EXCEPT ![vaultId].totalShares = @ + shares,
                                       ![vaultId].totalTokenA = @ + amountA,
                                       ![vaultId].totalTokenB = @ + amountB]
           /\ userShares' = [userShares EXCEPT ![vaultId][frame.caller] = @ + shares]
    /\ frame' = NoFrame
    /\ last' = Call("deposit", frame.caller, frame.args, "ok")
    /\ UNCHANGED <<now, relayVars, execVars, vaultCount, vaultStrategies, authorizedRelayers,
                   protocolFeeBps, feeRecipient, paused, blocked, executed>>

\* withdraw up to the call of safeTransfer for tokenA: the vault and the
\* caller's shares are already written
withdrawEnter(caller, vaultId, shares) ==
    /\ Idle
    /\ withdrawErr(caller, vaultId, shares) = "ok"
    /\ LET v == vaults[vaultId]
           amountA == withdrawAmount(shares, v.totalTokenA, v.totalShares)
           amountB == withdrawAmount(shares, v.totalTokenB, v.totalShares)
       IN  /\ vaults' = [vaults EXCEPT ![vaultId].totalShares = @ - shares,
                                       ![vaultId].totalTokenA = @ - amountA,
                                       ![vaultId].totalTokenB = @ - amountB]
           /\ userShares' = [userShares EXCEPT ![vaultId][caller] = @ - shares]
           /\ frame' = [ op |-> "withdraw", caller |-> caller,
                         args |-> <<vaultId, shares>>, pc |-> "transferA",
                         amounts |-> <<amountA, amountB>>, saved |-> Saved ]
    /\ UNCHANGED <<now, relayVars, execVars, vaultCount, vaultStrategies, authorizedRelayers,
                   protocolFeeBps, feeRecipient, paused, tokenVars, last, executed>>

\* safeTransfer for tokenA returns, safeTransfer for tokenB is called
withdrawTransferA ==
    /\ InTransfer("withdraw", "transferA")
    /\ LET v == vaults[frame.args[1]] IN
       /\ CanTransfer(balances, v.tokenA, VM, frame.amounts[1])
       /\ balances' = Transfer(balances, v.tokenA, VM, frame.caller, frame.amounts[1])
    /\ frame' = [frame EXCEPT !.pc = "transferB"]
    /\ UNCHANGED <<now, relayVars, execVars, ledgerVars, blocked, last, executed>>

\* safeTransfer for tokenB returns and withdraw returns
withdrawTransferB ==
    /\ InTransfer("withdraw", "transferB")
    /\ LET v == vaults[frame.args[1]] IN
       /\ CanTransfer(balances, v.tokenB, VM, frame.amounts[2])
       /\ balances' = Transfer(balances, v.tokenB, VM, frame.caller, frame.amounts[2])
    /\ frame' = NoFrame
    /\ last' = Call("withdraw", frame.caller, frame.args, "ok")
    /\ UNCHANGED <<now, relayVars, execVars, ledgerVars, blocked, executed>>

\* rebalance with a fee on tokenA, up to the call of safeTransfer for
\* tokenA: the range, lastRebalance and totalTokenA are already written
rebalanceEnter(caller, vaultId, strategyData) ==
    /\ Idle
    /\ rebalanceErr(caller, vaultId, strategyData) = "ok"
    /\ LET v == vaults[vaultId]
           feeA == rebalanceFee(v.totalTokenA)
           feeB == rebalanceFee(v.totalTokenB)
       IN  /\ feeA > 0
           /\ vaultStrategies' = [vaultStrategies EXCEPT
                                     ![vaultId].tickLower = strategyData.tickLower,
                                     ![vaultId].tickUpper = strategyData.tickUpper]
           /\ vaults' = [vaults EXCEPT ![vaultId].lastRebalance = now,
                                       ![vaultId].totalTokenA = @ - feeA]
           /\ frame' = [ op |-> "rebalance", caller |-> caller,
                         args |-> <<vaultId, strategyData>>, pc |-> "transferA",
                         amounts |-> <<feeA, feeB>>, saved |-> Saved ]
    /\ UNCHANGED <<now, relayVars, execVars, vaultCount, userShares, authorizedRelayers,
                   protocolFeeBps, feeRecipient, paused, tokenVars, last, executed>>

\* safeTransfer for tokenA returns; with a fee on tokenB, totalTokenB is
\* written and safeTransfer for tokenB is called, otherwise rebalance returns
rebalanceTransferA ==
    /\ InTransfer("rebalance", "transferA")
    /\ LET vaultId == frame.args[1]
           v == vaults[vaultId]
           feeA == frame.amounts[1]
           feeB == frame.amounts[2]
       IN  /\ CanTransfer(balances, v.tokenA, VM, feeA)
           /\ balances' = Transfer(balances, v.tokenA, VM, feeRecipient, feeA)
           /\ IF feeB > 0
              THEN /\ vaults' = [vaults EXCEPT ![vaultId].totalTokenB = @ - feeB]
                   /\ frame' = [frame EXCEPT !.pc = "transferB"]
                   /\ UNCHANGED last
              ELSE /\ frame' = NoFrame
                   /\ last' = Call("rebalance", frame.caller, frame.args, "ok")
                   /\ UNCHANGED vaults
    /\ UNCHANGED <<now, relayVars, execVars, vaultCount, vaultStrategies, userShares,
                   authorizedRelayers, protocolFeeBps, feeRecipient, paused, blocked,
                   executed>>

\* safeTransfer for tokenB returns and rebalance returns
rebalanceTransferB ==
    /\ InTransfer("rebalance", "transferB")
    /\ LET v == vaults[frame.args[1]] IN
       /\ CanTransfer(balances, v.tokenB, VM, frame.amounts[2])
       /\ balances' = Transfer(balances, v.tokenB, VM, feeRecipient, frame.amounts[2])
    /\ frame' = NoFrame
    /\ last' = Call("rebalance", frame.caller, frame.args, "ok")
    /\ UNCHANGED <<now, relayVars, execVars, ledgerVars, blocked, executed>>

\* The token transfer reverts: the transaction reverts with everything that
\* was written since it began, nested calls included.
transferReverts ==
    /\ frame # NoFrame
    /\ last = NoCall
    /\ vaultManager' = frame.saved.vaultManager
    /\ authorizedSigners' = frame.saved.authorizedSigners
    /\ nonces' = frame.saved.nonces
    /\ maxPayloadAge' = frame.saved.maxPayloadAge
    /\ maxExpiryDuration' = frame.saved.maxExpiryDuration
    /\ vaultCount' = frame.saved.vaultCount
    /\ vaults' = frame.saved.vaults
    /\ vaultStrategies' = frame.saved.vaultStrategies
    /\ userShares' = frame.saved.userShares
    /\ authorizedRelayers' = frame.saved.authorizedRelayers
    /\ protocolFeeBps' = frame.saved.protocolFeeBps
    /\ feeRecipient' = frame.saved.feeRecipient
    /\ paused' = frame.saved.paused
    /\ balances' = frame.saved.balances
    /\ frame' = NoFrame
    /\ last' = Call(frame.op, frame.caller, frame.args, "TransferFailed")
    /\ UNCHANGED <<now, relayVars, blocked, executed>>

\* ------------------------------------------------------------------------
\* RebalanceExecutor
\* ------------------------------------------------------------------------
\* The checks of executeRebalance, one definition per source line.
vaultIdMatches_Always(vaultId, payload) == TRUE
vaultIdMatches(vaultId, payload) == ~(payload.vaultId # vaultId)
notExpired_OffByOne(payload) == ~(now > payload.expiry + 1)
notExpired(payload) == ~(now > payload.expiry)
alreadyIssued(payload) == ~(now < payload.issuedAt)
youngEnough_DefaultAge(payload) == ~(now > payload.issuedAt + DEFAULT_MAX_PAYLOAD_AGE)
youngEnough(payload) == ~(now > payload.issuedAt + maxPayloadAge)

\* hash.recover(signature) over the EIP-712 digest of the decoded payload
recoveredSigner(payload, sig) == Recover(PayloadHash(payload), sig)

\* authorizedSigners[signer]; the mapping is false for every address that
\* was never authorized
isAuthorizedSigner(signer) == signer \in Accounts /\ authorizedSigners[signer]

nonceMatches_Always(signer, payload) == TRUE
nonceMatches_AtLeast(signer, payload) == ~(nonces[signer] > payload.nonce)
\* a nonce that was already used is accepted again (mutant)
nonceMatches_AtMost(signer, payload) == ~(nonces[signer] < payload.nonce)
nonceMatches(signer, payload) == ~(nonces[signer] # payload.nonce)

\* msg.sender seen by the contract that executeRebalance calls
downstreamSender_Caller(caller) == caller
downstreamSender(caller) == EXECUTOR

\* vaultManager.call(rebalance.selector, vaultId, actionData): the success
\* flag.  A call to an address without code succeeds and does nothing.
downstreamSuccess(caller, vaultId, actionData) ==
    IF vaultManager = VM
    THEN rebalanceErr(downstreamSender(caller), vaultId, actionData) = "ok"
    ELSE TRUE

executeErr_ExpiryFirst(caller, vaultId, payload, sig) ==
    IF payload = MALFORMED THEN "DecodeError"
    ELSE IF ~notExpired(payload) THEN "PayloadExpired"
    ELSE IF ~vaultIdMatches(vaultId, payload) THEN "InvalidSignature"
    ELSE IF ~alreadyIssued(payload) THEN "PayloadTooOld"
    ELSE IF ~youngEnough(payload) THEN "PayloadTooOld"
    ELSE IF sig = BADSIG THEN "ECDSAInvalidSignature"
    ELSE LET signer == recoveredSigner(payload, sig) IN
         IF ~isAuthorizedSigner(signer) THEN "UnauthorizedSigner"
         ELSE IF ~nonceMatches(signer, payload) THEN "InvalidNonce"
         ELSE IF ~downstreamSuccess(caller, vaultId, payload.actionData)
              THEN "ExecutionFailed"
         ELSE "ok"

executeErr(caller, vaultId, payload, sig) ==
    IF payload = MALFORMED THEN "DecodeError"
    ELSE IF ~vaultIdMatches(vaultId, payload) THEN "InvalidSignature"
    ELSE IF ~notExpired(payload) THEN "PayloadExpired"
    ELSE IF ~alreadyIssued(payload) THEN "PayloadTooOld"
    ELSE IF ~youngEnough(payload) THEN "PayloadTooOld"
    ELSE IF sig = BADSIG THEN "ECDSAInvalidSignature"
    ELSE LET signer == recoveredSigner(payload, sig) IN
         IF ~isAuthorizedSigner(signer) THEN "UnauthorizedSigner"
         ELSE IF ~nonceMatches(signer, payload) THEN "InvalidNonce"
         ELSE IF ~downstreamSuccess(caller, vaultId, payload.actionData)
              THEN "ExecutionFailed"
         ELSE "ok"

noncesAfterCall_NoIncrement(signer, success) == nonces
noncesAfterCall_NoRollback(signer, success) == [nonces EXCEPT ![signer] = @ + 1]

\* nonces after `nonces[signer]++` and the downstream call: the revert of
\* ExecutionFailed undoes the increment.
noncesAfterCall(signer, success) ==
    IF success THEN [nonces EXCEPT ![signer] = @ + 1] ELSE nonces

\* Storage written by executeRebalance.
executeEffect(caller, vaultId, payload, sig) ==
    LET err == executeErr(caller, vaultId, payload, sig)
    IN  /\ IF err \in {"ok", "ExecutionFailed"}
           THEN nonces' = noncesAfterCall(recoveredSigner(payload, sig), err = "ok")
           ELSE UNCHANGED nonces
        /\ IF err = "ok" /\ vaultManager = VM
           THEN rebalanceApply(vaultId, payload.actionData)
           ELSE UNCHANGED <<ledgerVars, tokenVars>>
        /\ UNCHANGED <<now, relayVars, vaultManager, authorizedSigners, maxPayloadAge,
                       maxExpiryDuration>>

executeRebalance(caller, vaultId, payload, sig) ==
    /\ Idle
    /\ last' = Call("executeRebalance", caller, <<vaultId, payload, sig>>,
                    executeErr(caller, vaultId, payload, sig))
    /\ executeEffect(caller, vaultId, payload, sig)
    /\ UNCHANGED <<executed, frame>>

zeroAddressErr(caller, addr) ==
    IF caller # OWNER THEN "OwnableUnauthorizedAccount"
    ELSE IF addr = ZERO THEN "ZeroAddress"
    ELSE "ok"

\* setSignerAuthorization that deletes the signer's record, nonce included,
\* on revocation (mutant)
setSignerAuthorization_ForgetsNonce(caller, signer, authorized) ==
    /\ Idle
    /\ LET err == zeroAddressErr(caller, signer)
       IN  /\ last' = Call("setSignerAuthorization", caller, <<signer, authorized>>, err)
           /\ IF err = "ok"
              THEN /\ authorizedSigners' = [authorizedSigners EXCEPT ![signer] = authorized]
                   /\ nonces' = IF authorized THEN nonces ELSE [nonces EXCEPT ![signer] = 0]
              ELSE UNCHANGED <<authorizedSigners, nonces>>
    /\ UNCHANGED <<now, relayVars, vaultManager, maxPayloadAge, maxExpiryDuration,
                   ledgerVars, tokenVars, executed, frame>>

setSignerAuthorization(caller, signer, authorized) ==
    /\ Idle
    /\ LET err == zeroAddressErr(caller, signer)
       IN  /\ last' = Call("setSignerAuthorization", caller, <<signer, authorized>>, err)
           /\ IF err = "ok"
              THEN authorizedSigners' = [authorizedSigners EXCEPT ![signer] = authorized]
              ELSE UNCHANGED authorizedSigners
    /\ UNCHANGED <<now, relayVars, vaultManager, nonces, maxPayloadAge, maxExpiryDuration,
                   ledgerVars, tokenVars, executed, frame>>

setVaultManager(caller, _vaultManager) ==
    /\ Idle
    /\ LET err == zeroAddressErr(caller, _vaultManager)
       IN  /\ last' = Call("setVaultManager", caller, <<_vaultManager>>, err)
           /\ vaultManager' = IF err = "ok" THEN _vaultManager ELSE vaultManager
    /\ UNCHANGED <<now, relayVars, authorizedSigners, nonces, maxPayloadAge, maxExpiryDuration,
                   ledgerVars, tokenVars, executed, frame>>

setMaxPayloadAge(caller, _maxAge) ==
    /\ Idle
    /\ LET err == OnlyOwnerErr(caller)
       IN  /\ last' = Call("setMaxPayloadAge", caller, <<_maxAge>>, err)
           /\ maxPayloadAge' = IF err = "ok" THEN _maxAge ELSE maxPayloadAge
    /\ UNCHANGED <<now, relayVars, vaultManager, authorizedSigners, nonces, maxExpiryDuration,
                   ledgerVars, tokenVars, executed, frame>>

setMaxExpiryDuration(caller, _maxExpiry) ==
    /\ Idle
    /\ LET err == OnlyOwnerErr(caller)
       IN  /\ last' = Call("setMaxExpiryDuration", caller, <<_maxExpiry>>, err)
           /\ maxExpiryDuration' = IF err = "ok" THEN _maxExpiry ELSE maxExpiryDuration
    /\ UNCHANGED <<now, relayVars, vaultManager, authorizedSigners, nonces, maxPayloadAge,
                   ledgerVars, tokenVars, executed, frame>>

\* ------------------------------------------------------------------------
\* Environment
\* ------------------------------------------------------------------------
\* block.timestamp advances between transactions.
Tick ==
    /\ Idle
    /\ now < MaxTime
    /\ now' = now + 1
    /\ UNCHANGED <<relayVars, execVars, ledgerVars, tokenVars, last, executed, frame>>

\* A token starts or stops rejecting transfers (paused or blacklisting token).
SetBlocked(token, on) ==
    /\ Idle
    /\ blocked' = IF on THEN blocked \cup {token} ELSE blocked \ {token}
    /\ blocked' # blocked
    /\ UNCHANGED <<now, relayVars, execVars, ledgerVars, balances, last, executed, frame>>

\* The mined transaction is acknowledged and, when it was a successful
\* executeRebalance, its payload and signature are logged.
Observe ==
    /\ ~Idle
    /\ last' = NoCall
    /\ executed' = IF last.op = "executeRebalance" /\ last.err = "ok"
                   THEN executed \cup {<<last.args[2], last.args[3]>>}
                   ELSE executed
    /\ UNCHANGED <<now, relayVars, execVars, ledgerVars, tokenVars, frame>>

\* The mined transaction is acknowledged without being logged.
Ack ==
    /\ ~Idle
    /\ last' = NoCall
    /\ UNCHANGED <<now, relayVars, execVars, ledgerVars, tokenVars, executed, frame>>

\* ------------------------------------------------------------------------
\* Inputs
\* ------------------------------------------------------------------------
SignerKeys == {"owner", "alice"}     \* keys that produce signatures

OtherOf(x, S) == CHOOSE y \in S : y # x

\* The payloads that differ from p in exactly one field.
Tampered(p) ==
    { [p EXCEPT !.vaultId = OtherOf(p.vaultId, IdSpace)],
      [p EXCEPT !.nonce = OtherOf(p.nonce, 0..MaxNonce)],
      [p EXCEPT !.actionData = OtherOf(p.actionData, ActionDatas)],
      [p EXCEPT !.issuedAt = OtherOf(p.issuedAt, StartTime..MaxTime)],
      [p EXCEPT !.expiry = OtherOf(p.expiry, StartTime..MaxTime)] }

\* Signatures a submitter may attach to payload p: by any key, over p for
\* this deployment, over p for another deployment, over a payload that
\* differs from p in one field, or bytes that are no signature at all.
SignaturesFor(p) ==
    {BADSIG}
    \cup { Sign(k, ThisDomain, p) : k \in SignerKeys }
    \cup { Sign(OWNER, OtherDomain, p) }
    \cup { Sign(OWNER, ThisDomain, q) : q \in Tampered(p) }

\* Signatures without the single-field variants.
PlainSignaturesFor(p) ==
    {BADSIG}
    \cup { Sign(k, ThisDomain, p) : k \in SignerKeys }
    \cup { Sign(OWNER, OtherDomain, p) }

RANGE_A == [tickLower |-> -900000, tickUpper |-> 900000, pct |-> 30]

\* The first vault and an id that no vault ever gets.
VerifyIds == {1, MaxVaults + 1}

VerifyPayloads ==
    [ vaultId : VerifyIds, nonce : 0..MaxNonce, actionData : {RANGE_A},
      issuedAt : StartTime..(MaxTime - 1), expiry : (StartTime + 1)..MaxTime ]

\* Payloads that are inside their time window as long as time stands still.
FreshPayloads ==
    [ vaultId : IdSpace, nonce : 0..MaxNonce,
      actionData : ActionDatas \cup {MALFORMED},
      issuedAt : {StartTime}, expiry : {MaxTime} ]

DEPOSIT_AMOUNT == 2 * MIN_DEPOSIT

\* ------------------------------------------------------------------------
\* Specification of the signed-action verifier: time, signer set, nonces
\* ------------------------------------------------------------------------
Next ==
    \/ Tick
    \/ Observe
    \/ (vaultCount = 0 /\ createVault("alice", "WBNB", "USDT", DEFAULT_STRATEGY_PARAMS))
    \/ setRelayerAuthorization(OWNER, EXECUTOR, TRUE)
    \/ \E b \in BOOLEAN : setSignerAuthorization(OWNER, "owner", b)
    \/ \E a \in 1..MaxAge : setMaxPayloadAge(OWNER, a)
    \/ \E vaultId \in VerifyIds, p \in VerifyPayloads :
         \E sig \in PlainSignaturesFor(p) : executeRebalance("bob", vaultId, p, sig)

Spec == Init /\ [][Next]_vars

\* ------------------------------------------------------------------------
\* Specification of the executor over the ledger: every way the downstream
\* rebalance can fail, with payloads that are inside their time window
\* ------------------------------------------------------------------------
NextAtomic ==
    \/ Ack
    \/ (vaultCount = 0 /\ createVault("alice", "WBNB", "USDT", DEFAULT_STRATEGY_PARAMS))
    \/ deposit("alice", 1, DEPOSIT_AMOUNT, DEPOSIT_AMOUNT)
    \/ \E b \in BOOLEAN : setRelayerAuthorization(OWNER, EXECUTOR, b)
    \/ setSignerAuthorization(OWNER, "owner", TRUE)
    \/ \E target \in {VM, "bob"} : setVaultManager(OWNER, target)
    \/ pause(OWNER)
    \/ unpause(OWNER)
    \/ \E on \in BOOLEAN : SetBlocked("WBNB", on)
    \/ \E vaultId \in IdSpace, p \in FreshPayloads, k \in SignerKeys :
         executeRebalance("bob", vaultId, p, Sign(k, ThisDomain, p))

SpecAtomic == Init /\ [][NextAtomic]_vars

\* ------------------------------------------------------------------------
\* Specification of the nonce registry: two signers, every operation the
\* executor offers and direct calls of the ledger's rebalance
\* ------------------------------------------------------------------------
SignerPayloads ==
    [ vaultId : IdSpace, nonce : 0..MaxNonce, actionData : {RANGE_A},
      issuedAt : {StartTime}, expiry : {MaxTime} ]

NextSigners ==
    \/ Ack
    \/ (vaultCount = 0 /\ createVault("alice", "WBNB", "USDT", DEFAULT_STRATEGY_PARAMS))
    \/ setRelayerAuthorization(OWNER, EXECUTOR, TRUE)
    \/ \E k \in SignerKeys, b \in BOOLEAN : setSignerAuthorization(OWNER, k, b)
    \/ \E a \in 1..MaxAge : setMaxPayloadAge(OWNER, a)
    \/ \E target \in {VM, "bob"} : setVaultManager(OWNER, target)
    \/ \E caller \in {OWNER, "bob"} : rebalance(caller, 1, RANGE_A)
    \/ \E vaultId \in IdSpace, p \in SignerPayloads :
         \E sig \in PlainSignaturesFor(p) : executeRebalance("bob", vaultId, p, sig)

SpecSigners == Init /\ [][NextSigners]_vars

\* ------------------------------------------------------------------------
\* Specification of the submitter: several callers, altered signatures
\* ------------------------------------------------------------------------
NextSubmit ==
    \/ Ack
    \/ (vaultCount = 0 /\ createVault("alice", "WBNB", "USDT", DEFAULT_STRATEGY_PARAMS))
    \/ \E b \in BOOLEAN : setRelayerAuthorization(OWNER, EXECUTOR, b)
    \/ \E b \in BOOLEAN : setSignerAuthorization(OWNER, "owner", b)
    \/ \E caller \in {OWNER, "bob"}, vaultId \in IdSpace, p \in FreshPayloads :
         \E sig \in SignaturesFor(p) : executeRebalance(caller, vaultId, p, sig)

SpecSubmit == Init /\ [][NextSubmit]_vars

\* ------------------------------------------------------------------------
\* Vocabulary of the properties
\* ------------------------------------------------------------------------
IsExecute(l) == l.op = "executeRebalance"
ArgVault(l) == l.args[1]
ArgPayload(l) == l.args[2]
ArgSig(l) == l.args[3]
Pair(l) == <<l.args[2], l.args[3]>>

\* The signature of call l was made by account a over exactly the payload
\* of l, for this deployment.
SignedBy(l, a) ==
    /\ ArgSig(l) # BADSIG
    /\ ArgSig(l).signer = a
    /\ ArgSig(l).payload = ArgPayload(l)
    /\ ArgSig(l).domain = ThisDomain

\* No storage of either contract, no token balance and no clock changes.
NothingChanges == UNCHANGED <<now, execVars, ledgerVars, tokenVars>>

\* A step that mines an executeRebalance transaction.
ExecuteStep == Idle /\ IsExecute(last')

\* ------------------------------------------------------------------------
\* C1.  Replay protection: whatever happens in between (revocation and
\* re-authorization of the signer, changes of maxPayloadAge, passing time),
\* an executeRebalance never succeeds with a payload+signature pair that has
\* already executed successfully.
\* ------------------------------------------------------------------------
C1_ReplayProtection ==
    [][ (IsExecute(last') /\ last'.err = "ok") => Pair(last') \notin executed ]_vars

\* A pair that executed earlier is submitted again while its signer is
\* authorized and after maxPayloadAge has been changed.
C1_Witness ==
    /\ IsExecute(last)
    /\ Pair(last) \in executed
    /\ maxPayloadAge # DEFAULT_MAX_PAYLOAD_AGE
    /\ authorizedSigners[ArgSig(last).signer]

\* ------------------------------------------------------------------------
\* C3 as stated: resubmitting a pair that executed successfully fails with
\* InvalidNonce, whatever time has elapsed and whatever the owner did.
\* ------------------------------------------------------------------------
C3_Original ==
    (IsExecute(last) /\ ArgVault(last) = ArgPayload(last).vaultId
        /\ Pair(last) \in executed)
    => last.err = "InvalidNonce"

\* C3 as amended: resubmitting a pair that executed successfully always
\* fails; with PayloadExpired once now > expiry, else with PayloadTooOld once
\* now > issuedAt + maxPayloadAge, else with UnauthorizedSigner when the
\* signer is no longer authorized, and with InvalidNonce otherwise.
C3_Amended ==
    (IsExecute(last) /\ ArgVault(last) = ArgPayload(last).vaultId
        /\ Pair(last) \in executed)
    => last.err =
         IF now > ArgPayload(last).expiry THEN "PayloadExpired"
         ELSE IF now > ArgPayload(last).issuedAt + maxPayloadAge THEN "PayloadTooOld"
         ELSE IF ~authorizedSigners[ArgSig(last).signer] THEN "UnauthorizedSigner"
         ELSE "InvalidNonce"

\* An executed pair is resubmitted inside its time window by a still
\* authorized signer and is rejected for its nonce.
C3_Witness ==
    /\ IsExecute(last)
    /\ Pair(last) \in executed
    /\ last.err = "InvalidNonce"

\* ------------------------------------------------------------------------
\* C5 as stated: a payload signed by an authorized signer whose nonce is
\* not nonces[signer] fails with InvalidNonce and changes no state (read for
\* calls whose vaultId argument is the payload's vaultId).
\* ------------------------------------------------------------------------
C5_Original ==
    [][ \A a \in Accounts :
          (ExecuteStep /\ SignedBy(last', a) /\ authorizedSigners[a]
             /\ ArgVault(last') = ArgPayload(last').vaultId
             /\ ArgPayload(last').nonce # nonces[a])
          => (last'.err = "InvalidNonce" /\ NothingChanges) ]_vars

\* C5 as amended: a payload signed by an authorized signer whose nonce is
\* not nonces[signer] never executes and changes no state; the error is
\* InvalidNonce when the call passes the vaultId and time checks.  Every
\* successful execution carries exactly nonces[signer] and moves it to the
\* next value, so the nonces a signer has executed are 0, 1, 2, ... without
\* gap or reuse.
C5_Amended ==
    [][ /\ \A a \in Accounts :
             (ExecuteStep /\ SignedBy(last', a) /\ authorizedSigners[a]
                /\ ArgPayload(last').nonce # nonces[a])
             => /\ last'.err # "ok"
                /\ NothingChanges
                /\ ( ( /\ ArgVault(last') = ArgPayload(last').vaultId
                       /\ now <= ArgPayload(last').expiry
                       /\ now >= ArgPayload(last').issuedAt
                       /\ now <= ArgPayload(last').issuedAt + maxPayloadAge )
                     => last'.err = "InvalidNonce" )
        /\ (ExecuteStep /\ last'.err = "ok")
             => /\ ArgPayload(last').nonce = nonces[ArgSig(last').signer]
                /\ nonces'[ArgSig(last').signer] = ArgPayload(last').nonce + 1
        /\ Idle' =>
             \A a \in Accounts :
                { e[1].nonce : e \in { x \in executed' : x[2].signer = a } }
                   = 0..(nonces'[a] - 1) ]_vars

\* A payload whose nonce is ahead of its authorized signer's is rejected
\* for its nonce.
C5_Witness ==
    /\ IsExecute(last)
    /\ last.err = "InvalidNonce"
    /\ ArgPayload(last).nonce > nonces[ArgSig(last).signer]

\* ------------------------------------------------------------------------
\* C6.  Freshness window: an executeRebalance that succeeded was mined at a
\* time with issuedAt <= now <= expiry and now <= issuedAt + maxPayloadAge,
\* for the value maxPayloadAge has at that time.
\* ------------------------------------------------------------------------
C6_FreshnessWindow ==
    (IsExecute(last) /\ last.err = "ok")
    => /\ ArgPayload(last).issuedAt <= now
       /\ now <= ArgPayload(last).expiry
       /\ now <= ArgPayload(last).issuedAt + maxPayloadAge

\* A payload executes at the last moment a shortened maxPayloadAge allows.
C6_Witness ==
    /\ IsExecute(last)
    /\ last.err = "ok"
    /\ maxPayloadAge # DEFAULT_MAX_PAYLOAD_AGE
    /\ now = ArgPayload(last).issuedAt + maxPayloadAge

\* ------------------------------------------------------------------------
\* C7 as stated: a payload with expiry < now always fails with
\* PayloadExpired, a payload with issuedAt + maxPayloadAge < now always
\* fails with PayloadTooOld, and neither changes any state (read for calls
\* whose vaultId argument is the payload's vaultId).
\* ------------------------------------------------------------------------
C7_Original ==
    [][ (ExecuteStep /\ ArgVault(last') = ArgPayload(last').vaultId) =>
          /\ (ArgPayload(last').expiry < now)
               => (last'.err = "PayloadExpired" /\ NothingChanges)
          /\ (ArgPayload(last').issuedAt + maxPayloadAge < now)
               => (last'.err = "PayloadTooOld" /\ NothingChanges) ]_vars

\* C7 as amended: a call whose vaultId argument is the payload's vaultId
\* fails with PayloadExpired when expiry < now, whatever the signature, and
\* with PayloadTooOld when expiry >= now and issuedAt + maxPayloadAge < now;
\* with another vaultId argument such a call fails with InvalidSignature.
\* In all these cases no state changes.
C7_Amended ==
    [][ (ExecuteStep /\ ( \/ ArgPayload(last').expiry < now
                          \/ ArgPayload(last').issuedAt + maxPayloadAge < now ))
        => /\ NothingChanges
           /\ last'.err =
                IF ArgVault(last') # ArgPayload(last').vaultId THEN "InvalidSignature"
                ELSE IF ArgPayload(last').expiry < now THEN "PayloadExpired"
                ELSE "PayloadTooOld" ]_vars

\* A payload that has not expired, correctly signed by the authorized
\* signer, is rejected as too old.
C7_Witness ==
    /\ IsExecute(last)
    /\ last.err = "PayloadTooOld"
    /\ ArgPayload(last).expiry >= now
    /\ ArgPayload(last).issuedAt + maxPayloadAge < now
    /\ SignedBy(last, OWNER)
    /\ authorizedSigners[OWNER]

\* ------------------------------------------------------------------------
\* C8.  Verifier check order: the error of an executeRebalance is that of
\* the first failing check in the order (a) vaultId argument, (b) expiry,
\* (c) issuedAt, (d) maxPayloadAge, (f) signer authorization, (g) nonce; a
\* call rejected by one of these checks changes no state, so the nonce is
\* not incremented and the ledger is not called.
\* ------------------------------------------------------------------------
VerifierErrors ==
    {"InvalidSignature", "PayloadExpired", "PayloadTooOld", "UnauthorizedSigner",
     "InvalidNonce"}

\* The error of the first failing check of call l, "none" when no check
\* (a)-(d), (f), (g) fails.
FirstFailingCheck(l) ==
    LET p == ArgPayload(l)
        sig == ArgSig(l)
    IN  IF p.vaultId # ArgVault(l) THEN "InvalidSignature"
        ELSE IF now > p.expiry THEN "PayloadExpired"
        ELSE IF now < p.issuedAt THEN "PayloadTooOld"
        ELSE IF now > p.issuedAt + maxPayloadAge THEN "PayloadTooOld"
        ELSE IF sig = BADSIG THEN "none"
        ELSE IF ~(\E a \in Accounts : SignedBy(l, a) /\ authorizedSigners[a])
             THEN "UnauthorizedSigner"
        ELSE IF nonces[sig.signer] # p.nonce THEN "InvalidNonce"
        ELSE "none"

C8_CheckOrder ==
    [][ ExecuteStep =>
          /\ FirstFailingCheck(last') # "none"
               => last'.err = FirstFailingCheck(last')
          /\ FirstFailingCheck(last') = "none"
               => last'.err \notin VerifierErrors
          /\ last'.err \in VerifierErrors => NothingChanges ]_vars

\* A call that fails three checks at once (vaultId argument, expiry and
\* signer) reports the first of them.
C8_Witness ==
    /\ IsExecute(last)
    /\ ArgVault(last) # ArgPayload(last).vaultId
    /\ now > ArgPayload(last).expiry
    /\ SignedBy(last, "alice")
    /\ last.err = "InvalidSignature"

\* ------------------------------------------------------------------------
\* Atomic rollback (C2)
\* ------------------------------------------------------------------------
\* Call l passes every check of the verifier (in the state before it).
PassesVerifier(l) == ArgSig(l) # BADSIG /\ FirstFailingCheck(l) = "none"

\* The step applied the rebalance of call l to its vault.
RebalanceApplied(l) ==
    LET id == ArgVault(l)
        data == ArgPayload(l).actionData
    IN  /\ data # MALFORMED
        /\ vaults[id].owner # ZERO
        /\ vaults'[id].lastRebalance = now
        /\ vaultStrategies'[id].tickLower = data.tickLower
        /\ vaultStrategies'[id].tickUpper = data.tickUpper
        /\ vaults'[id].totalTokenA =
              vaults[id].totalTokenA
                - (vaults[id].totalTokenA * protocolFeeBps) \div BPS_DENOMINATOR
        /\ vaults'[id].totalTokenB =
              vaults[id].totalTokenB
                - (vaults[id].totalTokenB * protocolFeeBps) \div BPS_DENOMINATOR

\* The ledger would reject the rebalance of call l coming from the executor.
LedgerRejects(l) ==
    LET id == ArgVault(l)
        data == ArgPayload(l).actionData
        feeA == (vaults[id].totalTokenA * protocolFeeBps) \div BPS_DENOMINATOR
    IN  \/ paused
        \/ ~authorizedRelayers[EXECUTOR]
        \/ vaults[id].owner = ZERO
        \/ data = MALFORMED
        \/ (feeA > 0 /\ vaults[id].tokenA \in blocked)

\* The part of C2 that holds: an executeRebalance that ends in
\* ExecutionFailed changes no state, and a verified payload whose rebalance
\* the VaultManager rejects ends in ExecutionFailed.
C2_Rollback ==
    [][ ExecuteStep =>
          /\ last'.err = "ExecutionFailed" => NothingChanges
          /\ (vaultManager = VM /\ PassesVerifier(last') /\ LedgerRejects(last'))
               => last'.err = "ExecutionFailed" ]_vars

\* C2 as stated: when the downstream VaultManager.rebalance fails, the
\* executeRebalance fails with ExecutionFailed and changes no state, and
\* there is no step in which a nonce advanced but the rebalance of the
\* payload was not applied to the vault.
C2_Claim ==
    [][ ExecuteStep =>
          /\ last'.err = "ExecutionFailed" => NothingChanges
          /\ (vaultManager = VM /\ PassesVerifier(last') /\ LedgerRejects(last'))
               => last'.err = "ExecutionFailed"
          /\ nonces' # nonces => RebalanceApplied(last') ]_vars

\* A verified payload is rolled back because a token transfer of the fee
\* fails in the ledger.
C2_Witness ==
    /\ IsExecute(last)
    /\ last.err = "ExecutionFailed"
    /\ ~paused
    /\ authorizedRelayers[EXECUTOR]
    /\ vaults[ArgVault(last)].owner # ZERO
    /\ ArgPayload(last).actionData # MALFORMED
    /\ blocked # {}

\* ------------------------------------------------------------------------
\* C4.  Nonce monotonicity: every nonce starts at 0; a nonce changes only by
\* +1, and only in a successful executeRebalance whose signature is the
\* signer's own over the submitted payload.  No other transaction (the
\* owner's setters, failed executions, direct rebalance) changes a nonce.
\* ------------------------------------------------------------------------
C4_NonceMonotonic ==
    /\ \A a \in Accounts : nonces[a] = 0
    /\ [][ \A a \in Accounts :
             nonces'[a] # nonces[a]
             => /\ nonces'[a] = nonces[a] + 1
                /\ ExecuteStep
                /\ last'.err = "ok"
                /\ SignedBy(last', a) ]_vars

\* Both signers have executed, and a direct rebalance has just succeeded.
C4_Witness ==
    /\ nonces[OWNER] >= 1
    /\ nonces["alice"] >= 1
    /\ last.op = "rebalance"
    /\ last.err = "ok"

\* ------------------------------------------------------------------------
\* C9.  Signature authorization: an executeRebalance that succeeds or that
\* changes the ledger carries a signature made by a currently authorized
\* signer over exactly the submitted payload, is called for the vault the
\* payload names, writes the payload's range to that vault and leaves every
\* other vault alone.  A call whose signature covers a payload differing in
\* any field, or whose vaultId argument is not the payload's, fails.
\* ------------------------------------------------------------------------
C9_SignatureAuthorization ==
    [][ ExecuteStep =>
          LET p == ArgPayload(last')
          IN  /\ (last'.err = "ok"
                    \/ <<ledgerVars, tokenVars>>' # <<ledgerVars, tokenVars>>)
                 => /\ \E a \in Accounts : SignedBy(last', a) /\ authorizedSigners[a]
                    /\ ArgVault(last') = p.vaultId
                    /\ vaultStrategies'[p.vaultId].tickLower = p.actionData.tickLower
                    /\ vaultStrategies'[p.vaultId].tickUpper = p.actionData.tickUpper
                    /\ vaults'[p.vaultId].lastRebalance = now
                    /\ \A v \in IdSpace \ {p.vaultId} :
                          /\ vaults'[v] = vaults[v]
                          /\ vaultStrategies'[v] = vaultStrategies[v]
                          /\ userShares'[v] = userShares[v]
              /\ ~(\E a \in Accounts : SignedBy(last', a)) => last'.err # "ok"
              /\ ArgVault(last') # p.vaultId => last'.err # "ok" ]_vars

\* A signed payload has executed and its range is the vault's range.
C9_Witness ==
    /\ IsExecute(last)
    /\ last.err = "ok"
    /\ SignedBy(last, OWNER)
    /\ vaultStrategies[ArgVault(last)].tickLower = ArgPayload(last).actionData.tickLower
    /\ vaultStrategies[ArgVault(last)].tickLower # DEFAULT_STRATEGY_PARAMS.tickLower

\* ------------------------------------------------------------------------
\* C10.  Caller independence: the error and the storage written by an
\* executeRebalance are those the same call would have from any other
\* account.
\* ------------------------------------------------------------------------
C10_CallerIndependence ==
    [][ ExecuteStep =>
          \A c \in Accounts :
             /\ last'.err = executeErr(c, ArgVault(last'), ArgPayload(last'), ArgSig(last'))
             /\ executeEffect(c, ArgVault(last'), ArgPayload(last'), ArgSig(last')) ]_vars

\* The ledger's owner submits a verified payload while the executor is not
\* an authorized relayer, and is refused like anybody else.
C10_Witness ==
    /\ IsExecute(last)
    /\ last.caller = OWNER
    /\ SignedBy(last, OWNER)
    /\ last.err = "ExecutionFailed"
    /\ ~authorizedRelayers[EXECUTOR]
    /\ ~paused
    /\ vaults[ArgVault(last)].owner # ZERO
    /\ ArgPayload(last).actionData # MALFORMED

\* ------------------------------------------------------------------------
\* Specification of the relayer gate of VaultManager.rebalance: callers of
\* every standing, paused and unpaused ledger
\* ------------------------------------------------------------------------
NextGate ==
    \/ Ack
    \/ (vaultCount = 0 /\ createVault("alice", "WBNB", "USDT", DEFAULT_STRATEGY_PARAMS))
    \/ (vaults[1].totalShares = 0 /\ deposit("alice", 1, DEPOSIT_AMOUNT, DEPOSIT_AMOUNT))
    \/ \E r \in {"bob", EXECUTOR}, b \in BOOLEAN : setRelayerAuthorization(OWNER, r, b)
    \/ pause(OWNER)
    \/ unpause(OWNER)
    \/ \E caller \in Accounts, vaultId \in IdSpace,
          data \in ActionDatas \cup {MALFORMED} : rebalance(caller, vaultId, data)

SpecGate == Init /\ [][NextGate]_vars

\* The step is a direct call of VaultManager.rebalance.
RebalanceStep == Idle /\ last'.op = "rebalance"

\* The caller of call l is neither an authorized relayer nor the owner.
Outsider(l) == ~authorizedRelayers[l.caller] /\ l.caller # OWNER

\* ------------------------------------------------------------------------
\* C11 as stated: rebalance called directly by an account that is neither
\* an authorized relayer nor the owner fails with UnauthorizedRelayer and
\* changes no state, for any vaultId, any actionData and any ledger state,
\* paused ones included.
\* ------------------------------------------------------------------------
C11_Original ==
    [][ (RebalanceStep /\ Outsider(last'))
        => (last'.err = "UnauthorizedRelayer" /\ NothingChanges) ]_vars

\* C11 as amended: rebalance called directly by an account that is neither
\* an authorized relayer nor the owner always fails and changes no state,
\* for any vaultId and any actionData; it fails with UnauthorizedRelayer
\* while the ledger is not paused and with EnforcedPause while it is paused.
C11_Amended ==
    [][ (RebalanceStep /\ Outsider(last'))
        => /\ NothingChanges
           /\ last'.err = IF paused THEN "EnforcedPause" ELSE "UnauthorizedRelayer" ]_vars

\* An outsider is refused on a funded vault with well-formed action data.
C11_Witness ==
    /\ last.op = "rebalance"
    /\ last.caller = "bob"
    /\ last.err = "UnauthorizedRelayer"
    /\ ~authorizedRelayers["bob"]
    /\ vaults[last.args[1]].totalTokenA > 0
    /\ last.args[2] # MALFORMED

\* ------------------------------------------------------------------------
\* Specification of the share ledger: deposits and withdrawals of two
\* accounts in amounts whose ratios differ, and rebalances that take a fee.
\* An account deposits while it holds all the tokens it started with, and
\* withdraws a part of its shares while it has taken nothing back; the vault
\* is rebalanced until a fee has been paid.
\* ------------------------------------------------------------------------

Depositors == {"alice", "bob"}

\* Below the minimum, the minimum, and one and a half times the minimum.
DepositAmounts == {MIN_DEPOSIT - 1, MIN_DEPOSIT, (3 * MIN_DEPOSIT) \div 2}

\* Half of the caller's shares, all of them, and one more than that.
WithdrawShares(caller, vaultId) ==
    { userShares[vaultId][caller] \div 2,
      userShares[vaultId][caller],
      userShares[vaultId][caller] + 1 }

NextLedger ==
    \/ Ack
    \/ (vaultCount = 0 /\ createVault("alice", "WBNB", "USDT", DEFAULT_STRATEGY_PARAMS))
    \/ \E caller \in Depositors, vaultId \in VerifyIds, amountA, amountB \in DepositAmounts :
          /\ \A t \in Tokens : balances[t][caller] = INITIAL_BALANCE
          /\ deposit(caller, vaultId, amountA, amountB)
    \/ \E caller \in Depositors, vaultId \in VerifyIds :
          \E shares \in WithdrawShares(caller, vaultId) :
             /\ \/ shares >= userShares[vaultId][caller]
                \/ balances["WBNB"][caller] <= INITIAL_BALANCE - MIN_DEPOSIT
             /\ withdraw(caller, vaultId, shares)
    \/ setProtocolFee(OWNER, MAX_FEE_BPS)
    \/ /\ balances["WBNB"][feeRecipient] = INITIAL_BALANCE
       /\ rebalance(OWNER, 1, RANGE_A)

SpecLedger == Init /\ [][NextLedger]_vars

\* Sum of f[a] over the accounts a in S.
RECURSIVE SumOver(_, _)
SumOver(f, S) ==
    IF S = {} THEN 0
    ELSE LET a == CHOOSE x \in S : TRUE IN f[a] + SumOver(f, S \ {a})

\* ------------------------------------------------------------------------
\* C12.  Share conservation: in every state reached by createVault, deposit,
\* withdraw and rebalance of any accounts, for every vault the shares of all
\* accounts add up to the vault's totalShares.
\* ------------------------------------------------------------------------
C12_ShareConservation ==
    \A id \in IdSpace : SumOver(userShares[id], Accounts) = vaults[id].totalShares

\* Two accounts hold shares after a partial withdrawal and a rebalance fee.
C12_Witness ==
    /\ last.op = "withdraw"
    /\ last.err = "ok"
    /\ last.args[2] > 0
    /\ userShares[1]["alice"] > 0
    /\ userShares[1]["bob"] > 0
    /\ userShares[1]["alice"] # userShares[1]["bob"]
    /\ balances["WBNB"][feeRecipient] > INITIAL_BALANCE

\* The step is a call of VaultManager.withdraw.
WithdrawStep == Idle /\ last'.op = "withdraw"

\* ------------------------------------------------------------------------
\* C13.  On an existing vault a withdraw of more shares than the caller
\* holds fails with InsufficientShares and changes no state (vault totals,
\* every account's shares, token balances); no withdraw leaves totalShares,
\* totalTokenA or totalTokenB below zero.
\* ------------------------------------------------------------------------
C13_InsufficientShares ==
    [][ WithdrawStep =>
          LET id == last'.args[1]
              shares == last'.args[2]
          IN  /\ (vaults[id].owner # ZERO /\ shares > userShares[id][last'.caller])
                 => (last'.err = "InsufficientShares" /\ NothingChanges)
              /\ \A v \in IdSpace :
                    /\ vaults'[v].totalShares >= 0
                    /\ vaults'[v].totalTokenA >= 0
                    /\ vaults'[v].totalTokenB >= 0 ]_vars

\* A share holder asks for one share more than it holds and is refused.
C13_Witness ==
    /\ last.op = "withdraw"
    /\ last.err = "InsufficientShares"
    /\ userShares[last.args[1]][last.caller] > 0
    /\ last.args[2] = userShares[last.args[1]][last.caller] + 1
    /\ vaults[last.args[1]].totalShares > userShares[last.args[1]][last.caller]

\* ------------------------------------------------------------------------
\* Specification of the protocol fee: the owner and an outsider set fees at,
\* below and above the ceiling, the recipient changes, and a funded vault is
\* rebalanced with action data that differ in range or only in percentage.
\* A fee is taken from a vault that has paid less than MaxFees so far.
\* ------------------------------------------------------------------------
MaxFees == 1        \* a fee is taken while the vault has paid less than MaxFees

FeeValues == {0, MAX_FEE_BPS, MAX_FEE_BPS + 1}

\* RANGE_A with another reallocation percentage
RANGE_A_PCT == [RANGE_A EXCEPT !.pct = 100]

NextFees ==
    \/ Ack
    \/ Tick
    \/ (vaultCount = 0 /\ createVault("alice", "WBNB", "USDT", DEFAULT_STRATEGY_PARAMS))
    \/ \E amountB \in {DEPOSIT_AMOUNT, DEPOSIT_AMOUNT \div 2} :
          /\ \A t \in Tokens : balances[t]["alice"] = INITIAL_BALANCE
          /\ deposit("alice", 1, DEPOSIT_AMOUNT, amountB)
    \/ withdraw("alice", 1, userShares[1]["alice"])
    \/ \E caller \in {OWNER, "bob"}, newFeeBps \in FeeValues : setProtocolFee(caller, newFeeBps)
    \/ \E r \in {OWNER, "bob", VM} : setFeeRecipient(OWNER, r)
    \/ setRelayerAuthorization(OWNER, "bob", TRUE)
    \/ pause(OWNER)
    \/ unpause(OWNER)
    \/ \E on \in BOOLEAN : SetBlocked("USDT", on)
    \/ \E caller \in {OWNER, "bob"}, data \in ActionDatas \cup {RANGE_A_PCT} :
          /\ \/ rebalanceFee(vaults[1].totalTokenA) = 0
             \/ vaults[1].totalTokenA > DEPOSIT_AMOUNT - MaxFees
          /\ rebalance(caller, 1, data)

SpecFees == Init /\ [][NextFees]_vars

\* ------------------------------------------------------------------------
\* C14.  Fee ceiling: protocolFeeBps <= 1000 in every reachable state;
\* setProtocolFee(v) with v > 1000 fails and leaves protocolFeeBps (and all
\* other state) unchanged even when the owner calls; protocolFeeBps changes
\* only in a successful setProtocolFee of the owner, to the value passed.
\* ------------------------------------------------------------------------
C14_FeeCeiling ==
    /\ protocolFeeBps <= MAX_FEE_BPS
    /\ [][ /\ protocolFeeBps' <= MAX_FEE_BPS
           /\ (Idle /\ last'.op = "setProtocolFee" /\ last'.args[1] > MAX_FEE_BPS)
                => (last'.err # "ok" /\ NothingChanges)
           /\ protocolFeeBps' # protocolFeeBps
                => /\ Idle
                   /\ last'.op = "setProtocolFee"
                   /\ last'.err = "ok"
                   /\ last'.caller = OWNER
                   /\ protocolFeeBps' = last'.args[1] ]_vars

\* The owner, with the fee at the ceiling, asks for one basis point more.
C14_Witness ==
    /\ last.op = "setProtocolFee"
    /\ last.caller = OWNER
    /\ last.args[1] = MAX_FEE_BPS + 1
    /\ last.err = "Fee too high"
    /\ protocolFeeBps = MAX_FEE_BPS

\* The step is a direct call of VaultManager.rebalance that succeeds.
RebalanceDone == RebalanceStep /\ last'.err = "ok"

\* ------------------------------------------------------------------------
\* C15.  Rebalance fee accounting: a successful rebalance reduces
\* totalTokenA and totalTokenB by exactly floor(totalTokenX * protocolFeeBps
\* / 10000) each, which is at most protocolFeeBps/10000 of the total; the
\* fee recipient is credited and the vault manager debited exactly these
\* amounts, no other balance moves, and no transfer is made for a token
\* whose fee is zero (the rebalance succeeds even when that token rejects
\* transfers).
\* ------------------------------------------------------------------------
C15_FeeAccounting ==
    [][ RebalanceDone =>
          LET id == last'.args[1]
              v == vaults[id]
              feeA == (v.totalTokenA * protocolFeeBps) \div 10000
              feeB == (v.totalTokenB * protocolFeeBps) \div 10000
              fee == [t \in Tokens |-> IF t = v.tokenA THEN feeA
                                       ELSE IF t = v.tokenB THEN feeB ELSE 0]
          IN  /\ vaults'[id].totalTokenA = v.totalTokenA - feeA
              /\ vaults'[id].totalTokenB = v.totalTokenB - feeB
              /\ feeA * 10000 <= v.totalTokenA * protocolFeeBps
              /\ feeB * 10000 <= v.totalTokenB * protocolFeeBps
              /\ v.totalTokenA * protocolFeeBps < (feeA + 1) * 10000
              /\ v.totalTokenB * protocolFeeBps < (feeB + 1) * 10000
              /\ \A t \in Tokens, h \in Holders :
                    balances'[t][h] =
                       balances[t][h] + (IF h = feeRecipient THEN fee[t] ELSE 0)
                                      - (IF h = VM THEN fee[t] ELSE 0)
              /\ \A t \in Tokens : t \in blocked => fee[t] = 0 ]_vars

\* A rebalance takes a fee in one token and none in the other, which is
\* rejecting transfers at that moment.
C15_Witness ==
    /\ last.op = "rebalance"
    /\ last.err = "ok"
    /\ feeRecipient = "bob"
    /\ balances["WBNB"]["bob"] = INITIAL_BALANCE + 1
    /\ balances["USDT"]["bob"] = INITIAL_BALANCE
    /\ vaults[1].totalTokenA = DEPOSIT_AMOUNT - 1
    /\ vaults[1].totalTokenB = DEPOSIT_AMOUNT \div 2
    /\ "USDT" \in blocked

\* ------------------------------------------------------------------------
\* C16.  Effect and frame of a successful rebalance: the caller is an
\* authorized relayer or the owner and the vault exists and is active; the
\* strategy's tickLower and tickUpper become the decoded values,
\* lastRebalance becomes now and the token totals drop by the fee; every
\* other field of the vault and of its strategy (totalShares, owner, token
\* pair, isActive, rebalanceThreshold, autoRebalance), every userShares
\* entry and every other vault are unchanged; the outcome does not depend
\* on the decoded percentage.
\* ------------------------------------------------------------------------
C16_RebalanceFrame ==
    [][ RebalanceDone =>
          LET id == last'.args[1]
              data == last'.args[2]
              v == vaults[id]
          IN  /\ authorizedRelayers[last'.caller] \/ last'.caller = OWNER
              /\ v.owner # ZERO
              /\ v.isActive
              /\ vaultStrategies'[id] =
                    [ tickLower |-> data.tickLower,
                      tickUpper |-> data.tickUpper,
                      rebalanceThreshold |-> vaultStrategies[id].rebalanceThreshold,
                      autoRebalance |-> vaultStrategies[id].autoRebalance ]
              /\ vaults'[id] =
                    [ vaultId |-> v.vaultId, owner |-> v.owner,
                      tokenA |-> v.tokenA, tokenB |-> v.tokenB,
                      totalShares |-> v.totalShares,
                      totalTokenA |-> v.totalTokenA
                          - (v.totalTokenA * protocolFeeBps) \div 10000,
                      totalTokenB |-> v.totalTokenB
                          - (v.totalTokenB * protocolFeeBps) \div 10000,
                      strategy |-> v.strategy,
                      lastRebalance |-> now,
                      isActive |-> v.isActive ]
              /\ userShares' = userShares
              /\ vaultCount' = vaultCount
              /\ \A other \in IdSpace \ {id} :
                    /\ vaults'[other] = vaults[other]
                    /\ vaultStrategies'[other] = vaultStrategies[other]
              /\ \A pct \in {0, 30, 100} :
                    rebalanceErr(last'.caller, id, [data EXCEPT !.pct = pct]) = "ok" ]_vars

\* An authorized relayer rebalances a funded vault, later than its creation,
\* with the percentage that differs from the one used before.
C16_Witness ==
    /\ last.op = "rebalance"
    /\ last.err = "ok"
    /\ last.caller = "bob"
    /\ last.args[2] = RANGE_A_PCT
    /\ vaultStrategies[1].tickLower = RANGE_A.tickLower
    /\ vaultStrategies[1].rebalanceThreshold = DEFAULT_STRATEGY_PARAMS.rebalanceThreshold
    /\ vaults[1].lastRebalance = now
    /\ now > StartTime
    /\ vaults[1].totalShares > 0
    /\ vaults[1].totalTokenA < DEPOSIT_AMOUNT

\* The step is a call of VaultManager.deposit that succeeds.
DepositDone == Idle /\ last'.op = "deposit" /\ last'.err = "ok"

Min(x, y) == IF x < y THEN x ELSE y

\* ------------------------------------------------------------------------
\* C17.  Share minting rule: a successful deposit(vaultId, amountA, amountB)
\* mints floor(sqrt(amountA * amountB)) shares when the vault's totalShares
\* is 0 and min(floor(amountA * totalShares / totalTokenA), floor(amountB *
\* totalShares / totalTokenB)) otherwise; totalTokenA grows by amountA,
\* totalTokenB by amountB, totalShares and the caller's shares by the minted
\* amount, and no other account's shares change.
\* ------------------------------------------------------------------------
C17_ShareMinting ==
    [][ DepositDone =>
          LET id == last'.args[1]
              amountA == last'.args[2]
              amountB == last'.args[3]
              v == vaults[id]
              minted == vaults'[id].totalShares - v.totalShares
          IN  /\ IF v.totalShares = 0
                 THEN /\ minted >= 0
                      /\ minted * minted <= amountA * amountB
                      /\ (minted + 1) * (minted + 1) > amountA * amountB
                 ELSE minted = Min((amountA * v.totalShares) \div v.totalTokenA,
                                   (amountB * v.totalShares) \div v.totalTokenB)
              /\ vaults'[id].totalTokenA = v.totalTokenA + amountA
              /\ vaults'[id].totalTokenB = v.totalTokenB + amountB
              /\ userShares'[id] =
                    [userShares[id] EXCEPT ![last'.caller] = @ + minted] ]_vars

\* A second account deposits in another ratio than the first, after a fee
\* was taken, and is minted fewer shares than the first holds.
C17_Witness ==
    /\ last.op = "deposit"
    /\ last.err = "ok"
    /\ last.caller = "bob"
    /\ last.args[2] # last.args[3]
    /\ userShares[1]["alice"] > userShares[1]["bob"]
    /\ userShares[1]["bob"] > 0
    /\ balances["WBNB"][feeRecipient] > INITIAL_BALANCE

\* The step is a call of VaultManager.withdraw that succeeds.
WithdrawDone == WithdrawStep /\ last'.err = "ok"

\* ------------------------------------------------------------------------
\* C18.  Withdraw computation: a successful withdraw(vaultId, shares) pays
\* floor(shares * totalTokenA / totalShares) and floor(shares * totalTokenB
\* / totalShares) from the vault manager to the caller, lowers totalShares
\* and the caller's shares by shares and the token totals by the amounts
\* paid; there is no minimum: on an existing vault with shares outstanding
\* every withdraw of at most the caller's shares succeeds.
\* ------------------------------------------------------------------------
C18_WithdrawComputation ==
    [][ WithdrawStep =>
          LET id == last'.args[1]
              shares == last'.args[2]
              caller == last'.caller
              v == vaults[id]
              amountA == v.totalTokenA - vaults'[id].totalTokenA
              amountB == v.totalTokenB - vaults'[id].totalTokenB
              paid == [t \in Tokens |-> IF t = v.tokenA THEN amountA
                                        ELSE IF t = v.tokenB THEN amountB ELSE 0]
          IN  /\ last'.err = "ok" =>
                 /\ amountA * v.totalShares <= shares * v.totalTokenA
                 /\ shares * v.totalTokenA < (amountA + 1) * v.totalShares
                 /\ amountB * v.totalShares <= shares * v.totalTokenB
                 /\ shares * v.totalTokenB < (amountB + 1) * v.totalShares
                 /\ vaults'[id].totalShares = v.totalShares - shares
                 /\ userShares'[id] = [userShares[id] EXCEPT ![caller] = @ - shares]
                 /\ \A t \in Tokens, h \in Holders :
                       balances'[t][h] =
                          balances[t][h] + (IF h = caller THEN paid[t] ELSE 0)
                                         - (IF h = VM THEN paid[t] ELSE 0)
              /\ (/\ v.owner # ZERO
                  /\ v.totalShares > 0
                  /\ shares <= userShares[id][caller])
                 => last'.err = "ok" ]_vars

\* A holder withdraws part of its shares from a vault it shares with another
\* holder and is paid less than the minimum deposit.
C18_Witness ==
    /\ last.op = "withdraw"
    /\ last.err = "ok"
    /\ last.args[2] > 0
    /\ userShares[1][last.caller] > 0
    /\ vaults[1].totalShares > userShares[1][last.caller]
    /\ balances["WBNB"][last.caller] > INITIAL_BALANCE - MIN_DEPOSIT
    /\ balances["WBNB"][last.caller] < INITIAL_BALANCE

\* What a deposit of (amountA, amountB) into vault v followed at once by a
\* withdraw of the shares it minted pays back, and the totals it leaves.
RoundTrip(v, amountA, amountB) ==
    LET minted == depositShares(v, amountA, amountB)
        shares2 == v.totalShares + minted
        tokenA2 == v.totalTokenA + amountA
        tokenB2 == v.totalTokenB + amountB
        backA == withdrawAmount(minted, tokenA2, shares2)
        backB == withdrawAmount(minted, tokenB2, shares2)
    IN  [ minted |-> minted, backA |-> backA, backB |-> backB,
          totalShares |-> shares2 - minted,
          totalTokenA |-> tokenA2 - backA,
          totalTokenB |-> tokenB2 - backB ]

\* In the current state no deposit can be turned into a larger withdrawal,
\* and a deposit into a vault without shares comes back exactly.
RoundTripBound ==
    \A id \in IdSpace :
       vaults[id].owner # ZERO =>
       \A amountA, amountB \in DepositAmounts :
          (\E caller \in Depositors : depositErr(caller, id, amountA, amountB) = "ok")
          => LET r == RoundTrip(vaults[id], amountA, amountB)
             IN  /\ r.backA <= amountA
                 /\ r.backB <= amountB
                 /\ vaults[id].totalShares = 0
                    => /\ r.minted > 0
                       /\ r.backA = amountA
                       /\ r.backB = amountB
                       /\ r.totalShares = 0
                       /\ r.totalTokenA = 0
                       /\ r.totalTokenB = 0

\* ------------------------------------------------------------------------
\* C19.  Deposit/withdraw round trip: in every reachable state, a deposit
\* of (amountA, amountB) followed at once by a withdraw of exactly the
\* shares it minted pays back at most amountA and at most amountB; into a
\* vault without shares (first and only depositor) it pays back exactly the
\* deposited amounts and leaves totalShares = totalTokenA = totalTokenB = 0;
\* and a vault whose shares have all been withdrawn holds no tokens.
\* ------------------------------------------------------------------------
C19_RoundTrip ==
    /\ RoundTripBound
    /\ \A id \in IdSpace :
          vaults[id].totalShares = 0
          => (vaults[id].totalTokenA = 0 /\ vaults[id].totalTokenB = 0)

\* The only depositor has withdrawn all its shares: the vault is back at
\* (0,0,0) and the depositor holds what it started with.
C19_Witness ==
    /\ last.op = "withdraw"
    /\ last.err = "ok"
    /\ last.args[2] > 0
    /\ vaults[1].owner # ZERO
    /\ vaults[1].totalShares = 0
    /\ vaults[1].totalTokenA = 0
    /\ vaults[1].totalTokenB = 0
    /\ \A t \in Tokens : balances[t][last.caller] = INITIAL_BALANCE

\* ------------------------------------------------------------------------
\* Deposit validation: deposits of amounts around the minimum into the
\* created vault and into an id that is never created, while the owner
\* pauses and unpauses the ledger and a token starts and stops rejecting
\* transfers; a depositor withdraws all its shares.
\* ------------------------------------------------------------------------
NextDeposit ==
    \/ Ack
    \/ (vaultCount = 0 /\ createVault("alice", "WBNB", "USDT", DEFAULT_STRATEGY_PARAMS))
    \/ \E caller \in Depositors, vaultId \in VerifyIds, amountA, amountB \in DepositAmounts :
          /\ \A t \in Tokens : balances[t][caller] = INITIAL_BALANCE
          /\ deposit(caller, vaultId, amountA, amountB)
    \/ \E caller \in Depositors : withdraw(caller, 1, userShares[1][caller])
    \/ pause(OWNER)
    \/ unpause(OWNER)
    \/ \E token \in Tokens, on \in BOOLEAN : SetBlocked(token, on)

SpecDeposit == Init /\ [][NextDeposit]_vars

\* A step that mines a deposit transaction.
DepositStep == Idle /\ last'.op = "deposit"

\* The validation of deposit's body (vault, then activity, then minimum),
\* as the error of the deposit mined by the step.
DepositValidation ==
    LET v == vaults[last'.args[1]]
        amountA == last'.args[2]
        amountB == last'.args[3]
    IN  /\ v.owner = ZERO => last'.err = "VaultNotFound"
        /\ (v.owner # ZERO /\ ~v.isActive) => last'.err = "VaultInactive"
        /\ (v.owner # ZERO /\ v.isActive
              /\ (amountA < MIN_DEPOSIT \/ amountB < MIN_DEPOSIT))
           => last'.err = "InsufficientDeposit"

\* ------------------------------------------------------------------------
\* C20 as stated: deposit fails with VaultNotFound for an id that was never
\* created, with VaultInactive for a deactivated vault and with
\* InsufficientDeposit when amountA < MIN_DEPOSIT or amountB < MIN_DEPOSIT,
\* checked in that order; in every failing case no token is transferred and
\* no vault or share state changes.
\* ------------------------------------------------------------------------
C20_Original ==
    [][ DepositStep
        => /\ DepositValidation
           /\ last'.err # "ok" => NothingChanges ]_vars

\* C20 as amended: while the ledger is not paused, deposit fails with
\* VaultNotFound for an id that was never created, with VaultInactive for a
\* deactivated vault and with InsufficientDeposit when amountA < MIN_DEPOSIT
\* or amountB < MIN_DEPOSIT, checked in that order; while the ledger is
\* paused every deposit fails with EnforcedPause; in every failing case no
\* token is transferred and no vault or share state changes.
C20_Amended ==
    [][ DepositStep
        => /\ ~paused => DepositValidation
           /\ paused => last'.err = "EnforcedPause"
           /\ last'.err # "ok" => NothingChanges ]_vars

\* A deposit with one amount below the minimum is refused by a funded vault
\* of a ledger that is not paused.
C20_Witness ==
    /\ last.op = "deposit"
    /\ last.err = "InsufficientDeposit"
    /\ ~paused
    /\ last.args[2] >= MIN_DEPOSIT
    /\ last.args[3] < MIN_DEPOSIT
    /\ vaults[last.args[1]].totalShares > 0
    /\ \A t \in Tokens : balances[t][last.caller] = INITIAL_BALANCE

\* ------------------------------------------------------------------------
\* Specification of the vault registry: vaults are created by two accounts
\* with every pair of token arguments (null and identical ones included)
\* while the ledger is paused and unpaused, and every operation that
\* writes a vault is applied to the vaults that exist.
\* ------------------------------------------------------------------------
TokenArgs == Tokens \cup {ZERO}
STRATEGY == "strategy"               \* address of a strategy contract

NextRegistry ==
    \/ Ack
    \/ \E caller \in Depositors, tokenA, tokenB \in TokenArgs :
          createVault(caller, tokenA, tokenB, DEFAULT_STRATEGY_PARAMS)
    \/ pause(OWNER)
    \/ unpause(OWNER)
    \/ \E vaultId \in VerifyIds :
          /\ vaults[vaultId].totalShares = 0
          /\ deposit("alice", vaultId, DEPOSIT_AMOUNT, DEPOSIT_AMOUNT)
    \/ \E vaultId \in VerifyIds : withdraw("alice", vaultId, userShares[vaultId]["alice"])
    \/ \E vaultId \in IdSpace :
          /\ balances["WBNB"][feeRecipient] = INITIAL_BALANCE
          /\ rebalance(OWNER, vaultId, RANGE_A)
    \/ \E caller \in Accounts, vaultId \in IdSpace : attachStrategy(caller, vaultId, STRATEGY)

SpecRegistry == Init /\ [][NextRegistry]_vars

\* A step that mines a createVault transaction.
CreateStep == Idle /\ last'.op = "createVault"

\* The vault with id `id` exists.
Exists(id) == vaults[id].owner # ZERO

\* ------------------------------------------------------------------------
\* C21.  Vault ids are assigned sequentially from 1 and never reused:
\* vaultCount starts at 0; a successful createVault raises vaultCount by one
\* and stores the new vault, with that number as its id, at an id where no
\* vault was, leaving every other vault as it is; a failed createVault and
\* every other operation leave vaultCount unchanged; and a vault exists
\* (owner non-null) exactly for the ids 1..vaultCount.
\* ------------------------------------------------------------------------
C21_SequentialIds ==
    /\ vaultCount = 0
    /\ [][ /\ \A id \in IdSpace : Exists(id)' <=> id \in 1..vaultCount'
           /\ IF CreateStep /\ last'.err = "ok"
              THEN /\ vaultCount' = vaultCount + 1
                   /\ ~Exists(vaultCount')
                   /\ vaults'[vaultCount'].vaultId = vaultCount'
                   /\ \A id \in IdSpace \ {vaultCount'} : vaults'[id] = vaults[id]
              ELSE vaultCount' = vaultCount ]_vars

\* The second vault has been created by an account other than the creator
\* of the first, which holds a deposit.
C21_Witness ==
    /\ last.op = "createVault"
    /\ last.err = "ok"
    /\ vaultCount = 2
    /\ vaults[2].vaultId = 2
    /\ vaults[2].owner # vaults[1].owner
    /\ vaults[1].totalShares > 0

\* The token arguments of createVault call l are null or identical.
BadTokens(l) == l.args[1] = ZERO \/ l.args[2] = ZERO \/ l.args[1] = l.args[2]

\* Every existing vault has two different non-null tokens.
TokenPairInvariant ==
    \A id \in IdSpace :
       Exists(id) => /\ vaults[id].tokenA # vaults[id].tokenB
                     /\ vaults[id].tokenA # ZERO
                     /\ vaults[id].tokenB # ZERO

\* The step leaves the token pair and the id of every existing vault alone.
TokenPairImmutable ==
    \A id \in IdSpace :
       Exists(id) => /\ vaults'[id].tokenA = vaults[id].tokenA
                     /\ vaults'[id].tokenB = vaults[id].tokenB
                     /\ vaults'[id].vaultId = vaults[id].vaultId

\* ------------------------------------------------------------------------
\* C22 as stated: createVault fails with InvalidTokens, without changing
\* vaultCount or any vault, when either token is null or the two tokens are
\* identical; every existing vault has tokenA # tokenB with both non-null;
\* and no operation changes a vault's tokenA, tokenB or id after creation.
\* ------------------------------------------------------------------------
C22_Original ==
    [][ /\ TokenPairInvariant'
        /\ TokenPairImmutable
        /\ (CreateStep /\ BadTokens(last'))
           => (last'.err = "InvalidTokens" /\ UNCHANGED <<vaultCount, vaults>>) ]_vars

\* C22 as amended: createVault with a null token or two identical tokens
\* always fails without changing vaultCount or any vault, with InvalidTokens
\* while the ledger is not paused and with EnforcedPause while it is paused;
\* every existing vault has tokenA # tokenB with both non-null; and no
\* operation changes a vault's tokenA, tokenB or id after creation.
C22_Amended ==
    [][ /\ TokenPairInvariant'
        /\ TokenPairImmutable
        /\ (CreateStep /\ BadTokens(last'))
           => /\ last'.err = IF paused THEN "EnforcedPause" ELSE "InvalidTokens"
              /\ UNCHANGED <<vaultCount, vaults>> ]_vars

\* A createVault with twice the same token is refused by a ledger that is
\* not paused and already holds a vault with a strategy attached.
C22_Witness ==
    /\ last.op = "createVault"
    /\ last.err = "InvalidTokens"
    /\ last.args[1] = last.args[2]
    /\ last.args[1] # ZERO
    /\ ~paused
    /\ vaultCount = 1
    /\ vaults[1].strategy = STRATEGY

\* ------------------------------------------------------------------------
\* Specification of the pause switch: the owner and another account pause
\* and unpause the ledger while vaults are created, a deposit is made and
\* the vault is rebalanced directly and through the executor.
\* ------------------------------------------------------------------------
NextPause ==
    \/ Ack
    \/ \E caller \in {OWNER, "bob"} : pause(caller)
    \/ \E caller \in {OWNER, "bob"} : unpause(caller)
    \/ createVault("alice", "WBNB", "USDT", DEFAULT_STRATEGY_PARAMS)
    \/ (vaults[1].totalShares = 0 /\ deposit("alice", 1, DEPOSIT_AMOUNT, DEPOSIT_AMOUNT))
    \/ setRelayerAuthorization(OWNER, EXECUTOR, TRUE)
    \/ setSignerAuthorization(OWNER, "owner", TRUE)
    \/ \E caller \in {OWNER, "bob"} :
          /\ balances["WBNB"][feeRecipient] = INITIAL_BALANCE
          /\ rebalance(caller, 1, RANGE_A)
    \/ \E p \in SignerPayloads :
          /\ balances["WBNB"][feeRecipient] = INITIAL_BALANCE
          /\ executeRebalance("bob", p.vaultId, p, Sign(OWNER, ThisDomain, p))

SpecPause == Init /\ [][NextPause]_vars

\* The entry points of the ledger that carry whenNotPaused.
PausableOps == {"createVault", "deposit", "rebalance"}

\* ------------------------------------------------------------------------
\* C23.  Pause gating: only a pause or unpause called by the owner changes
\* the paused flag, and a pause or unpause called by anyone else fails and
\* changes no state; while the ledger is paused every createVault, deposit
\* and rebalance fails and changes no state, and every executeRebalance
\* whose payload passes the verifier and reaches the ledger's rebalance
\* fails with ExecutionFailed and changes no state; while the ledger is not
\* paused (initially and after unpause) none of these calls is refused for
\* being paused, and a verified payload for an existing vault submitted
\* through an authorized executor succeeds.
\* ------------------------------------------------------------------------
C23_PauseGating ==
    [][ /\ paused' # paused
           => (last'.op \in {"pause", "unpause"} /\ last'.caller = OWNER)
        /\ (Idle /\ last'.op \in {"pause", "unpause"} /\ last'.caller # OWNER)
           => (last'.err # "ok" /\ NothingChanges)
        /\ (Idle /\ last'.op \in PausableOps)
           => IF paused
              THEN last'.err = "EnforcedPause" /\ NothingChanges
              ELSE last'.err # "EnforcedPause"
        /\ (ExecuteStep /\ PassesVerifier(last') /\ vaultManager = VM)
           => IF paused
              THEN last'.err = "ExecutionFailed" /\ NothingChanges
              ELSE (authorizedRelayers[EXECUTOR] /\ Exists(ArgVault(last')))
                   => last'.err = "ok" ]_vars

\* A verified payload for a funded vault, submitted through an authorized
\* executor, fails while the ledger is paused.
C23_Witness ==
    /\ IsExecute(last)
    /\ last.err = "ExecutionFailed"
    /\ paused
    /\ authorizedRelayers[EXECUTOR]
    /\ authorizedSigners[OWNER]
    /\ vaults[ArgVault(last)].totalTokenA > 0

\* ------------------------------------------------------------------------
\* Specification of the allow-lists: the owner and another account set and
\* clear relayer and signer flags, in any order and repeatedly, while
\* signed payloads are executed.  The signer alice is never revoked.
\* ------------------------------------------------------------------------
NextAllow ==
    \/ Ack
    \/ (vaultCount = 0 /\ createVault("alice", "WBNB", "USDT", DEFAULT_STRATEGY_PARAMS))
    \/ \E caller \in {OWNER, "bob"}, relayer \in {"bob", EXECUTOR}, b \in BOOLEAN :
          setRelayerAuthorization(caller, relayer, b)
    \/ \E caller \in {OWNER, "bob"}, signer \in {"owner", ZERO}, b \in BOOLEAN :
          setSignerAuthorization(caller, signer, b)
    \/ \E caller \in {OWNER, "bob"} : setSignerAuthorization(caller, "alice", TRUE)
    \/ \E p \in SignerPayloads, k \in SignerKeys :
          executeRebalance("bob", p.vaultId, p, Sign(k, ThisDomain, p))

SpecAllow == Init /\ [][NextAllow]_vars

MAINNET_CHAIN_ID == 204

ForeignDomains ==
    { OtherDomain,
      <<"AdaptiveLiquidityOrchestrator", "1", MAINNET_CHAIN_ID, EXECUTOR>>,
      <<"AdaptiveLiquidityOrchestrator", "2", CHAIN_ID, EXECUTOR>>,
      <<"OtherProtocol", "1", CHAIN_ID, EXECUTOR>> }

NextDomains ==
    \/ Ack
    \/ (vaultCount = 0 /\ createVault("alice", "WBNB", "USDT", DEFAULT_STRATEGY_PARAMS))
    \/ setRelayerAuthorization(OWNER, EXECUTOR, TRUE)
    \/ \E k \in SignerKeys, b \in BOOLEAN : setSignerAuthorization(OWNER, k, b)
    \/ \E p \in SignerPayloads, k \in SignerKeys, d \in ForeignDomains \cup {ThisDomain} :
          executeRebalance("bob", p.vaultId, p, Sign(k, d, p))

SpecDomains == Init /\ [][NextDomains]_vars

\* The signature of call l was made over exactly the payload of l, for
\* another deployment than this one.
ForeignSigned(l) ==
    /\ ArgSig(l) # BADSIG
    /\ ArgSig(l).payload = ArgPayload(l)
    /\ ArgSig(l).domain # ThisDomain

\* ------------------------------------------------------------------------
\* C25.  Cross-deployment replay protection: an executeRebalance whose
\* signature was made over its payload for another instance of the protocol
\* (a domain that differs in name, version, chain or contract address)
\* never succeeds and changes no state, also when the signing account is an
\* authorized signer here and the payload carries its current nonce here;
\* with the vaultId and time checks passed it fails with UnauthorizedSigner.
\* ------------------------------------------------------------------------
C25_CrossDeployment ==
    [][ (ExecuteStep /\ ForeignSigned(last'))
        => /\ last'.err # "ok"
           /\ NothingChanges
           /\ ( /\ vaultIdMatches(ArgVault(last'), ArgPayload(last'))
                /\ notExpired(ArgPayload(last'))
                /\ alreadyIssued(ArgPayload(last'))
                /\ youngEnough(ArgPayload(last')) )
              => last'.err = "UnauthorizedSigner" ]_vars

\* A payload signed by the owner for the same protocol on another chain is
\* refused here although the owner is an authorized signer here, has executed
\* payloads here, and the payload carries the owner's current nonce here.
C25_Witness ==
    /\ IsExecute(last)
    /\ last.err = "UnauthorizedSigner"
    /\ ForeignSigned(last)
    /\ ArgSig(last).signer = OWNER
    /\ ArgSig(last).domain[3] = MAINNET_CHAIN_ID
    /\ authorizedSigners[OWNER]
    /\ nonces[OWNER] = ArgPayload(last).nonce
    /\ nonces[OWNER] > 0
    /\ authorizedRelayers[EXECUTOR]
    /\ Exists(ArgVault(last))

\* ------------------------------------------------------------------------
\* Specification of the reentrancy guard: deposit, withdraw and rebalance
\* run one token transfer at a time; inside each transfer the depositor
\* (hook of the sender or recipient) and the owner (hook of the fee
\* recipient) call the entry points of the ledger and of the executor, or
\* the transfer reverts.
\* ------------------------------------------------------------------------
Reentrants == {"alice", OWNER}

NextReentrancy ==
    \/ Ack
    \/ (frame = NoFrame /\ setRelayerAuthorization(OWNER, EXECUTOR, TRUE))
    \/ (frame = NoFrame /\ setSignerAuthorization(OWNER, "owner", TRUE))
    \/ createVault("alice", "WBNB", "USDT", DEFAULT_STRATEGY_PARAMS)
    \/ (vaults[1].totalShares = 0 /\ depositEnter("alice", 1, DEPOSIT_AMOUNT, DEPOSIT_AMOUNT))
    \/ depositTransferA
    \/ depositTransferB
    \/ (userShares[1]["alice"] > 0 /\ withdrawEnter("alice", 1, userShares[1]["alice"]))
    \/ withdrawTransferA
    \/ withdrawTransferB
    \/ (balances["WBNB"][feeRecipient] = INITIAL_BALANCE /\ rebalanceEnter(OWNER, 1, RANGE_A))
    \/ rebalanceTransferA
    \/ rebalanceTransferB
    \/ transferReverts
    \/ \E caller \in Reentrants :
          frame # NoFrame /\ deposit(caller, 1, DEPOSIT_AMOUNT, DEPOSIT_AMOUNT)
    \/ \E caller \in Reentrants :
          frame # NoFrame /\ withdraw(caller, 1, userShares[1][caller])
    \/ \E caller \in Reentrants :
          frame # NoFrame /\ rebalance(caller, 1, RANGE_A)
    \/ \E caller \in Reentrants :
          frame # NoFrame /\ attachStrategy(caller, 1, STRATEGY)
    \/ \E p \in SignerPayloads :
          /\ frame # NoFrame
          /\ p.vaultId = 1
          /\ executeRebalance("alice", 1, p, Sign(OWNER, ThisDomain, p))

SpecReentrancy == Init /\ [][NextReentrancy]_vars

\* A step that is a call made from inside a token transfer.
NestedCall == frame # NoFrame /\ last = NoCall /\ last' # NoCall /\ frame' = frame

\* The entry points of the ledger that carry nonReentrant.
GuardedOps == {"deposit", "withdraw", "rebalance"}

\* A nested executeRebalance whose payload passes the verifier and whose
\* downstream call goes to the ledger.
NestedExecute ==
    NestedCall /\ IsExecute(last') /\ PassesVerifier(last') /\ vaultManager = VM

\* What the call of `f` does to its vault, to its caller's shares and to
\* the token balances when it runs alone, from the state in which it began.
AloneResult(f) ==
    LET id == f.args[1]
        v == f.saved.vaults[id]
        held == f.saved.userShares[id][f.caller]
    IN  IF f.op = "deposit"
        THEN LET minted == depositShares(v, f.args[2], f.args[3]) IN
             [ totalShares |-> v.totalShares + minted,
               totalTokenA |-> v.totalTokenA + f.args[2],
               totalTokenB |-> v.totalTokenB + f.args[3],
               shares |-> held + minted,
               balances |-> Transfer(Transfer(f.saved.balances, v.tokenA, f.caller, VM,
                                              f.args[2]),
                                     v.tokenB, f.caller, VM, f.args[3]) ]
        ELSE IF f.op = "withdraw"
        THEN LET amountA == withdrawAmount(f.args[2], v.totalTokenA, v.totalShares)
                 amountB == withdrawAmount(f.args[2], v.totalTokenB, v.totalShares)
             IN  [ totalShares |-> v.totalShares - f.args[2],
                   totalTokenA |-> v.totalTokenA - amountA,
                   totalTokenB |-> v.totalTokenB - amountB,
                   shares |-> held - f.args[2],
                   balances |-> Transfer(Transfer(f.saved.balances, v.tokenA, VM,
                                                  f.caller, amountA),
                                         v.tokenB, VM, f.caller, amountB) ]
        ELSE LET feeA == rebalanceFee(v.totalTokenA)
                 feeB == rebalanceFee(v.totalTokenB)
             IN  [ totalShares |-> v.totalShares,
                   totalTokenA |-> v.totalTokenA - feeA,
                   totalTokenB |-> v.totalTokenB - feeB,
                   shares |-> held,
                   balances |-> Transfer(Transfer(f.saved.balances, v.tokenA, VM,
                                                  feeRecipient, feeA),
                                         v.tokenB, VM, feeRecipient, feeB) ]

\* The call that was inside a token transfer returns, and what it leaves is
\* what it does when it runs alone.
ReturnsAsAlone ==
    (frame # NoFrame /\ frame' = NoFrame /\ last'.err = "ok")
    => LET id == frame.args[1]
           r == AloneResult(frame)
       IN  /\ vaults'[id].totalShares = r.totalShares
           /\ vaults'[id].totalTokenA = r.totalTokenA
           /\ vaults'[id].totalTokenB = r.totalTokenB
           /\ userShares'[id][frame.caller] = r.shares
           /\ balances' = r.balances

\* ------------------------------------------------------------------------
\* C26 as stated: while deposit, withdraw or rebalance is inside an external
\* token transfer, every nested call of createVault, deposit, withdraw,
\* rebalance or attachStrategy, and every nested executeRebalance that
\* reaches the ledger's rebalance, is rejected and changes no state.
\* ------------------------------------------------------------------------
C26_Original ==
    [][ /\ (NestedCall /\ last'.op \in GuardedOps \cup {"createVault", "attachStrategy"})
           => (last'.err # "ok" /\ NothingChanges)
        /\ NestedExecute => (last'.err # "ok" /\ NothingChanges) ]_vars

\* C26 as amended: while deposit, withdraw or rebalance is inside an external
\* token transfer, every nested call of deposit, withdraw or rebalance is
\* rejected with ReentrancyGuardReentrantCall and every nested
\* executeRebalance that reaches the ledger's rebalance is rejected with
\* ExecutionFailed, without any change of state; createVault and
\* attachStrategy carry no guard, and a nested call of them writes only
\* vaultCount and the new vault, or a vault's strategy address, so that the
\* call inside the transfer returns with the vault totals, shares and token
\* balances it produces when it runs alone.
C26_Amended ==
    [][ /\ (NestedCall /\ last'.op \in GuardedOps)
           => (last'.err = "ReentrancyGuardReentrantCall" /\ NothingChanges)
        /\ NestedExecute => (last'.err = "ExecutionFailed" /\ NothingChanges)
        /\ (NestedCall /\ last'.op \in {"createVault", "attachStrategy"})
           => /\ UNCHANGED <<now, execVars, userShares, authorizedRelayers,
                             protocolFeeBps, feeRecipient, paused, tokenVars>>
              /\ \A id \in IdSpace :
                    Exists(id) => /\ vaultStrategies'[id] = vaultStrategies[id]
                                  /\ [vaults'[id] EXCEPT !.strategy = ZERO]
                                       = [vaults[id] EXCEPT !.strategy = ZERO]
        /\ ReturnsAsAlone ]_vars

\* The recipient of a withdrawal calls withdraw again from inside the
\* transfer of the first token, after the vault and its shares were written,
\* and is rejected.
C26_Witness ==
    /\ frame # NoFrame
    /\ frame.op = "withdraw"
    /\ frame.pc = "transferA"
    /\ last.op = "withdraw"
    /\ last.caller = frame.caller
    /\ last.err = "ReentrancyGuardReentrantCall"
    /\ vaults[1].totalShares < frame.saved.vaults[1].totalShares

\* ------------------------------------------------------------------------
\* Specification of the failures: every entry point that can fail is called
\* with arguments it accepts and with arguments it refuses, on vaults that
\* are empty, funded and never created.
\* ------------------------------------------------------------------------
NextFailures ==
    \/ Ack
    \/ \E tokenA, tokenB \in TokenArgs :
          vaultCount = 0 /\ createVault("alice", tokenA, tokenB, DEFAULT_STRATEGY_PARAMS)
    \/ \E vaultId \in VerifyIds, amountB \in {MIN_DEPOSIT - 1, DEPOSIT_AMOUNT} :
          /\ vaults[vaultId].totalShares = 0
          /\ deposit("alice", vaultId, DEPOSIT_AMOUNT, amountB)
    \/ \E caller \in Depositors, vaultId \in VerifyIds :
          \E shares \in {0, userShares[vaultId][caller], userShares[vaultId][caller] + 1} :
             withdraw(caller, vaultId, shares)
    \/ \E caller \in {OWNER, "bob"}, vaultId \in VerifyIds, data \in {RANGE_A, MALFORMED} :
          /\ balances["WBNB"][feeRecipient] = INITIAL_BALANCE
          /\ rebalance(caller, vaultId, data)
    \/ setRelayerAuthorization(OWNER, EXECUTOR, TRUE)
    \/ setSignerAuthorization(OWNER, "owner", TRUE)
    \/ \E vaultId \in VerifyIds, p \in SignerPayloads, k \in SignerKeys :
          /\ balances["WBNB"][feeRecipient] = INITIAL_BALANCE
          /\ executeRebalance("bob", vaultId, p, Sign(k, ThisDomain, p))
    \/ \E newFeeBps \in FeeValues : setProtocolFee(OWNER, newFeeBps)
    \/ \E caller \in Accounts, vaultId \in VerifyIds : attachStrategy(caller, vaultId, STRATEGY)

SpecFailures == Init /\ [][NextFailures]_vars

\* The custom errors the two contracts declare for their failure categories.
NamedErrors ==
    { "InvalidTokens", "VaultNotFound", "VaultInactive", "InsufficientDeposit",
      "InsufficientShares", "UnauthorizedRelayer", "InvalidSignature", "PayloadExpired",
      "PayloadTooOld", "UnauthorizedSigner", "InvalidNonce", "ExecutionFailed" }

FailingOps ==
    { "createVault", "deposit", "withdraw", "rebalance", "executeRebalance",
      "setProtocolFee", "attachStrategy" }

\* ------------------------------------------------------------------------
\* C27.  Named failures: every failing call of createVault, deposit,
\* withdraw, rebalance, executeRebalance, setProtocolFee or attachStrategy
\* fails with one of the named error conditions, never with a generic
\* failure such as an arithmetic or division-by-zero panic.
\* ------------------------------------------------------------------------
C27_NamedFailures ==
    [][ (last = NoCall /\ last' # NoCall /\ last'.op \in FailingOps /\ last'.err # "ok")
        => last'.err \in NamedErrors ]_vars

\* The example C27 gives: no call of withdraw ends in a panic (violated by
\* withdraw of 0 shares from a vault that was created and holds no shares).
C27_NoPanic ==
    [][ (last = NoCall /\ last' # NoCall /\ last'.op = "withdraw")
        => last'.err # "Panic" ]_vars

\* ------------------------------------------------------------------------
\* Specification of the emptied vault: two accounts deposit in different
\* ratios, the vault is rebalanced at the highest fee while a fee is due,
\* and shares are withdrawn in halves and in full.
\* Transactions keep arriving.
\* ------------------------------------------------------------------------
FeeBudget == 50     \* fees are taken until the recipient has received FeeBudget of token A

NextZero ==
    \/ Ack
    \/ (vaultCount = 0 /\ createVault("alice", "WBNB", "USDT", DEFAULT_STRATEGY_PARAMS))
    \/ setProtocolFee(OWNER, MAX_FEE_BPS)
    \/ \E caller \in Depositors, amountA \in {MIN_DEPOSIT, DEPOSIT_AMOUNT} :
          /\ \A t \in Tokens : balances[t][caller] = INITIAL_BALANCE
          /\ deposit(caller, 1, amountA, DEPOSIT_AMOUNT)
    \/ /\ userShares[1]["alice"] >= MIN_DEPOSIT
       /\ withdraw("alice", 1, userShares[1]["alice"] \div 2)
    \/ \E caller \in Depositors :
          /\ userShares[1][caller] > 0
          /\ withdraw(caller, 1, userShares[1][caller])
    \/ /\ rebalanceFee(vaults[1].totalTokenA) > 0 \/ rebalanceFee(vaults[1].totalTokenB) > 0
       /\ balances["WBNB"][feeRecipient] < INITIAL_BALANCE + FeeBudget
       /\ protocolFeeBps = MAX_FEE_BPS
       /\ rebalance(OWNER, 1, RANGE_A)

SpecZero == Init /\ [][NextZero]_vars /\ WF_vars(NextZero)

\* Vault `id` has no shares but records tokens.
Asymmetric(id) ==
    /\ vaults[id].totalShares = 0
    /\ (vaults[id].totalTokenA # 0 \/ vaults[id].totalTokenB # 0)

\* ------------------------------------------------------------------------
\* C28 as stated: the sequences of createVault, deposit, withdraw and
\* rebalance reach a state in which a vault has totalShares = 0 while
\* totalTokenA or totalTokenB is nonzero.
\* ------------------------------------------------------------------------
C28_Original == <>(\E id \in IdSpace : Asymmetric(id))

\* C28 as amended: no sequence of createVault, deposit, withdraw and
\* rebalance reaches a state in which a vault has totalShares = 0 while
\* totalTokenA or totalTokenB is nonzero: fees are taken from the tokens of
\* a vault that has shares, the withdrawal of the last shares pays out all
\* that is recorded, and while shares exist both token totals stay nonzero
\* (the proportional branch of deposit never divides by zero).
C28_Amended ==
    \A id \in IdSpace :
       /\ ~Asymmetric(id)
       /\ vaults[id].totalShares > 0
          => (vaults[id].totalTokenA > 0 /\ vaults[id].totalTokenB > 0)

\* The last shares of a vault that paid fees have been withdrawn: the vault
\* records no tokens, and the ledger holds none.
C28_Witness ==
    /\ last.op = "withdraw"
    /\ last.err = "ok"
    /\ last.args[2] > 0
    /\ vaults[1].totalShares = 0
    /\ vaults[1].totalTokenA = 0
    /\ vaults[1].totalTokenB = 0
    /\ balances["WBNB"][feeRecipient] > INITIAL_BALANCE + 1
    /\ balances["WBNB"][VM] = 0

\* ------------------------------------------------------------------------
\* Specification of revocation: time passes, signers are authorized when
\* they are not and revoked when they are, and payloads of every nonce and
\* time window are submitted under both keys.
\* ------------------------------------------------------------------------
NextRevoke ==
    \/ Tick
    \/ Ack
    \/ (vaultCount = 0 /\ createVault("alice", "WBNB", "USDT", DEFAULT_STRATEGY_PARAMS))
    \/ (~authorizedRelayers[EXECUTOR] /\ setRelayerAuthorization(OWNER, EXECUTOR, TRUE))
    \/ \E k \in SignerKeys :
          setSignerAuthorization(OWNER, k, ~authorizedSigners[k])
    \/ \E vaultId \in VerifyIds, p \in VerifyPayloads, k \in SignerKeys :
          executeRebalance("bob", vaultId, p, Sign(k, ThisDomain, p))

SpecRevoke == Init /\ [][NextRevoke]_vars

\* The payload passes the vaultId and time checks of executeRebalance(vaultId, ..).
PassesIdAndTime(vaultId, p) ==
    /\ vaultIdMatches(vaultId, p)
    /\ notExpired(p)
    /\ alreadyIssued(p)
    /\ youngEnough(p)

\* What executeRebalance answers to payload p signed with key k.
Verdict(k, p) == executeErr("bob", p.vaultId, p, Sign(k, ThisDomain, p))

\* ------------------------------------------------------------------------
\* C29.  Revocation and re-authorization: while signer s is not authorized,
\* every payload signed by s that passes the vaultId and time checks fails
\* with UnauthorizedSigner and changes nothing; setSignerAuthorization never
\* changes a nonce; and right after s is authorized again, every payload
\* signed by s that carries nonces[s] and is inside its time window passes
\* the verifier (it succeeds, or fails only in the downstream rebalance).
\* ------------------------------------------------------------------------
C29_Revocation ==
    [][ /\ \A k \in SignerKeys :
             ( /\ Idle
               /\ last'.op = "executeRebalance"
               /\ last'.args[3] = Sign(k, ThisDomain, last'.args[2])
               /\ PassesIdAndTime(last'.args[1], last'.args[2])
               /\ ~authorizedSigners[k] )
             => /\ last'.err = "UnauthorizedSigner"
                /\ UNCHANGED <<execVars, ledgerVars, tokenVars>>
        /\ (Idle /\ last'.op = "setSignerAuthorization") => nonces' = nonces
        /\ \A k \in SignerKeys :
             ( /\ Idle
               /\ last'.op = "setSignerAuthorization"
               /\ last'.err = "ok"
               /\ last'.args = <<k, FALSE>> )
             => \A p \in VerifyPayloads :
                   PassesIdAndTime(p.vaultId, p) => Verdict(k, p)' = "UnauthorizedSigner"
        /\ \A k \in SignerKeys :
             ( /\ Idle
               /\ last'.op = "setSignerAuthorization"
               /\ last'.err = "ok"
               /\ last'.args = <<k, TRUE>> )
             => \A p \in VerifyPayloads :
                   (PassesIdAndTime(p.vaultId, p) /\ p.nonce = nonces[k])
                   => /\ Verdict(k, p)' \in {"ok", "ExecutionFailed"}
                      /\ Verdict(k, p)' = "ok"
                           <=> downstreamSuccess("bob", p.vaultId, p.actionData)
      ]_vars

\* A signer who has executed a payload and was revoked afterwards has just
\* been authorized again, later than the payload of its current nonce was
\* issued, and that payload is executable.
C29_Witness ==
    /\ last.op = "setSignerAuthorization"
    /\ last.err = "ok"
    /\ last.args = <<"owner", TRUE>>
    /\ nonces["owner"] = 1
    /\ now > StartTime
    /\ Verdict("owner", [vaultId |-> 1, nonce |-> 1, actionData |-> RANGE_A,
                          issuedAt |-> StartTime, expiry |-> MaxTime]) = "ok"

\* ------------------------------------------------------------------------
\* Executor as relayer (C30), over SpecAtomic
\* ------------------------------------------------------------------------
\* The ledger has a reason other than the sender to reject the rebalance of
\* call l: it is paused, the vault does not exist, the action data do not
\* decode, or the transfer of the fee fails.
OtherRejection(l) ==
    LET id == ArgVault(l)
        data == ArgPayload(l).actionData
    IN  \/ paused
        \/ vaults[id].owner = ZERO
        \/ ~vaults[id].isActive
        \/ data = MALFORMED
        \/ (rebalanceFee(vaults[id].totalTokenA) > 0 /\ vaults[id].tokenA \in blocked)
        \/ (rebalanceFee(vaults[id].totalTokenB) > 0 /\ vaults[id].tokenB \in blocked)

\* The executor's address is neither an authorized relayer of the ledger nor
\* the ledger's owner.
ExecutorUnauthorized == ~authorizedRelayers[EXECUTOR] /\ EXECUTOR # OWNER

\* C30.  The executor must itself be an authorized relayer: an
\* executeRebalance whose payload passes every verifier check fails with
\* ExecutionFailed and changes nothing (nonce and vault included) whenever
\* the executor is neither an authorized relayer of the ledger nor its
\* owner; when the executor is authorized and the ledger has no other
\* reason to reject the rebalance, the call succeeds, advances the nonce and
\* applies the rebalance.
C30_ExecutorIsRelayer ==
    [][ (ExecuteStep /\ PassesVerifier(last')) =>
          /\ ExecutorUnauthorized
               => (last'.err = "ExecutionFailed" /\ NothingChanges)
          /\ (~ExecutorUnauthorized /\ vaultManager = VM /\ ~OtherRejection(last'))
               => /\ last'.err = "ok"
                  /\ nonces'[ArgSig(last').signer] = nonces[ArgSig(last').signer] + 1
                  /\ RebalanceApplied(last') ]_vars

\* C30 where the executor calls the ledger: the same statement for the
\* executions made while vaultManager is the VaultManager.
C30_WiredToLedger ==
    [][ (ExecuteStep /\ PassesVerifier(last') /\ vaultManager = VM) =>
          /\ ExecutorUnauthorized
               => (last'.err = "ExecutionFailed" /\ NothingChanges)
          /\ ~ExecutorUnauthorized
               => last'.err = (IF OtherRejection(last') THEN "ExecutionFailed" ELSE "ok")
          /\ last'.err = "ok"
               => /\ nonces'[ArgSig(last').signer] = nonces[ArgSig(last').signer] + 1
                  /\ RebalanceApplied(last') ]_vars

\* A payload that passes the verifier fails for the executor's missing
\* authorization alone: the vault holds a deposit, the ledger is not paused
\* and no token is blocked.
C30_FailsForRelayerAlone ==
    /\ IsExecute(last)
    /\ last.err = "ExecutionFailed"
    /\ PassesVerifier(last)
    /\ vaultManager = VM
    /\ ExecutorUnauthorized
    /\ ~OtherRejection(last)
    /\ vaults[ArgVault(last)].totalShares > 0

\* ------------------------------------------------------------------------
\* Specification of the shared nonce: two vaults, payloads for either vault
\* with either action, signed under both keys; successful executions are
\* logged.
\* ------------------------------------------------------------------------
NoncePayloads ==
    [ vaultId : {1, 2}, nonce : 0..MaxNonce, actionData : ActionDatas,
      issuedAt : {StartTime}, expiry : {MaxTime} ]

NextNonce ==
    \/ Observe
    \/ (vaultCount < 2 /\ createVault("alice", "WBNB", "USDT", DEFAULT_STRATEGY_PARAMS))
    \/ (~authorizedRelayers[EXECUTOR] /\ setRelayerAuthorization(OWNER, EXECUTOR, TRUE))
    \/ \E k \in SignerKeys : (~authorizedSigners[k] /\ setSignerAuthorization(OWNER, k, TRUE))
    \/ \E p \in NoncePayloads, k \in SignerKeys :
          executeRebalance("bob", p.vaultId, p, Sign(k, ThisDomain, p))

SpecNonce == Init /\ [][NextNonce]_vars

\* The payload+signature pairs that have executed successfully, the one just
\* mined included.
Succeeded ==
    executed \cup (IF IsExecute(last) /\ last.err = "ok" THEN {Pair(last)} ELSE {})

\* ------------------------------------------------------------------------
\* C31.  The nonce is per signer and shared across all vaults: of two
\* distinct payloads signed by the same signer with the same nonce (for the
\* same or different vaults, with the same or different actionData), at most
\* one ever executes successfully.
\* ------------------------------------------------------------------------
C31_SharedNonce ==
    \A e1, e2 \in Succeeded :
       (e1[2].signer = e2[2].signer /\ e1[1].nonce = e2[1].nonce) => e1[1] = e2[1]

\* The owner's nonce-0 payload for vault 1 has executed; the owner's nonce-0
\* payload for vault 2, which exists, is refused for its nonce.
C31_Witness ==
    /\ IsExecute(last)
    /\ last.err = "InvalidNonce"
    /\ SignedBy(last, OWNER)
    /\ ArgPayload(last).nonce = 0
    /\ ArgPayload(last).vaultId = 2
    /\ Exists(2)
    /\ \E e \in executed : e[2].signer = OWNER /\ e[1].nonce = 0 /\ e[1].vaultId = 1

\* ------------------------------------------------------------------------
\* Specification of the exit: two vaults over the same two tokens in
\* opposite roles, two depositors, the pause, fees at the highest rate, and
\* withdrawals of half and of all the caller holds.
\* ------------------------------------------------------------------------
NextExit ==
    \/ Ack
    \/ (vaultCount = 0 /\ createVault("alice", "WBNB", "USDT", DEFAULT_STRATEGY_PARAMS))
    \/ (vaultCount = 1 /\ createVault("bob", "USDT", "WBNB", DEFAULT_STRATEGY_PARAMS))
    \/ (protocolFeeBps # MAX_FEE_BPS /\ setProtocolFee(OWNER, MAX_FEE_BPS))
    \/ pause(OWNER)
    \/ unpause(OWNER)
    \/ /\ \A t \in Tokens : balances[t]["alice"] = INITIAL_BALANCE
       /\ deposit("alice", 1, MIN_DEPOSIT, DEPOSIT_AMOUNT)
    \/ \E vaultId \in {1, 2} :
          /\ \A t \in Tokens : balances[t]["bob"] = INITIAL_BALANCE
          /\ balances["WBNB"][feeRecipient] = INITIAL_BALANCE
          /\ deposit("bob", vaultId, DEPOSIT_AMOUNT, DEPOSIT_AMOUNT)
    \/ \E caller \in Depositors, vaultId \in {1, 2} :
          \E shares \in {userShares[vaultId][caller] \div 2, userShares[vaultId][caller]} :
             /\ userShares[vaultId][caller] >= MIN_DEPOSIT
             /\ withdraw(caller, vaultId, shares)
    \/ \E vaultId \in {1, 2} :
          /\ protocolFeeBps = MAX_FEE_BPS
          /\ balances["WBNB"][feeRecipient] = INITIAL_BALANCE
          /\ rebalance(OWNER, vaultId, RANGE_A)

SpecExit == Init /\ [][NextExit]_vars

Recorded(t) ==
    LET part(id) == (IF vaults[id].tokenA = t THEN vaults[id].totalTokenA ELSE 0)
                  + (IF vaults[id].tokenB = t THEN vaults[id].totalTokenB ELSE 0)
        sum[S \in SUBSET IdSpace] ==
            IF S = {} THEN 0
            ELSE LET id == CHOOSE x \in S : TRUE IN part(id) + sum[S \ {id}]
    IN  sum[IdSpace]

NextDust ==
    \/ Ack
    \/ (vaultCount = 0 /\ createVault("alice", "WBNB", "USDT", DEFAULT_STRATEGY_PARAMS))
    \/ (protocolFeeBps # MAX_FEE_BPS /\ setProtocolFee(OWNER, MAX_FEE_BPS))
    \/ /\ \A t \in Tokens : balances[t]["alice"] = INITIAL_BALANCE
       /\ deposit("alice", 1, MIN_DEPOSIT, DEPOSIT_AMOUNT)
    \/ /\ \A t \in Tokens : balances[t]["bob"] = INITIAL_BALANCE
       /\ userShares[1]["alice"] = 1
       /\ deposit("bob", 1, DEPOSIT_AMOUNT, MIN_DEPOSIT)
    \/ \E shares \in {userShares[1]["alice"] \div 2, userShares[1]["alice"] - 1,
                       userShares[1]["alice"]} :
          /\ shares > 0
          /\ userShares[1]["alice"] >= MIN_DEPOSIT
          /\ withdraw("alice", 1, shares)
    \/ (userShares[1]["bob"] > 0 /\ withdraw("bob", 1, userShares[1]["bob"]))
    \/ /\ protocolFeeBps = MAX_FEE_BPS
       /\ rebalanceFee(vaults[1].totalTokenA) > 0 \/ rebalanceFee(vaults[1].totalTokenB) > 0
       /\ rebalance(OWNER, 1, RANGE_A)

SpecDust == Init /\ [][NextDust]_vars

\* ------------------------------------------------------------------------
\* C34.  No division by zero in deposit: in every reachable state a vault
\* with totalShares > 0 has totalTokenA > 0 and totalTokenB > 0 (partial
\* withdrawals and fees of at most 10% never empty a token total while
\* shares remain), so no deposit ends in a division by zero.
\* ------------------------------------------------------------------------
C34_NoDivisionByZero ==
    /\ \A id \in IdSpace :
          vaults[id].totalShares > 0
          => (vaults[id].totalTokenA > 0 /\ vaults[id].totalTokenB > 0)
    /\ last.op = "deposit" => last.err # "Panic"
    /\ \A a \in Depositors : depositErr(a, 1, MIN_DEPOSIT, MIN_DEPOSIT) # "Panic"

\* A deposit has gone through the proportional branch of a vault that was
\* drawn down to a single token of each kind.
C34_Witness ==
    /\ last.op = "deposit"
    /\ last.err = "ok"
    /\ last.caller = "bob"
    /\ userShares[1]["alice"] > 0
    /\ vaults[1].totalTokenA = DEPOSIT_AMOUNT + 1
    /\ vaults[1].totalTokenB = MIN_DEPOSIT + 1

\* ------------------------------------------------------------------------
\* C35.  Vaults cannot be deactivated: every created vault has isActive =
\* TRUE in every reachable state, whatever is called on it, and no deposit
\* or rebalance (direct or through the executor, where the ledger's error
\* would surface as ExecutionFailed) is refused with VaultInactive.
\* ------------------------------------------------------------------------
C35_AlwaysActive ==
    /\ \A id \in IdSpace : Exists(id) => vaults[id].isActive
    /\ last.op \in FailingOps => last.err # "VaultInactive"
    /\ \A id \in IdSpace :
          Exists(id) =>
             /\ depositErr("alice", id, DEPOSIT_AMOUNT, DEPOSIT_AMOUNT)
                   \notin {"VaultInactive", "VaultNotFound"}
             /\ rebalanceErr(OWNER, id, RANGE_A) \notin {"VaultInactive", "VaultNotFound"}

\* A vault that was funded and given a strategy contract has just been
\* rebalanced, at a fee, and is active.
C35_Witness ==
    /\ last.op = "rebalance"
    /\ last.err = "ok"
    /\ vaults[1].isActive
    /\ vaults[1].strategy = STRATEGY
    /\ vaults[1].totalShares > 0
    /\ balances["WBNB"][feeRecipient] > INITIAL_BALANCE

\* ------------------------------------------------------------------------
\* Specification of the strategy record: time passes; a vault is created,
\* funded, emptied, given a strategy contract, paused, and rebalanced,
\* directly and through the executor, by accepted and by refused calls,
\* while the owner changes the fee, its recipient and the allow-lists.
\* ------------------------------------------------------------------------
NextRecord ==
    \/ Tick
    \/ Ack
    \/ (vaultCount = 0 /\ createVault("alice", "WBNB", "USDT", DEFAULT_STRATEGY_PARAMS))
    \/ /\ \A t \in Tokens : balances[t]["alice"] = INITIAL_BALANCE
       /\ deposit("alice", 1, DEPOSIT_AMOUNT, DEPOSIT_AMOUNT)
    \/ (userShares[1]["alice"] > 0 /\ withdraw("alice", 1, userShares[1]["alice"]))
    \/ \E caller \in {"alice", "bob"}, vaultId \in VerifyIds :
          /\ vaults[1].strategy = ZERO
          /\ attachStrategy(caller, vaultId, STRATEGY)
    \/ (protocolFeeBps # MAX_FEE_BPS /\ setProtocolFee(OWNER, MAX_FEE_BPS))
    \/ (feeRecipient # "bob" /\ setFeeRecipient(OWNER, "bob"))
    \/ (~authorizedRelayers[EXECUTOR] /\ setRelayerAuthorization(OWNER, EXECUTOR, TRUE))
    \/ (~authorizedSigners["owner"] /\ setSignerAuthorization(OWNER, "owner", TRUE))
    \/ pause(OWNER)
    \/ unpause(OWNER)
    \/ \E caller \in {OWNER, "bob"}, vaultId \in VerifyIds, data \in {RANGE_A, MALFORMED} :
          /\ balances["WBNB"]["owner"] = INITIAL_BALANCE
          /\ balances["WBNB"]["bob"] = INITIAL_BALANCE
          /\ rebalance(caller, vaultId, data)
    \/ \E p \in SignerPayloads :
          /\ balances["WBNB"]["owner"] = INITIAL_BALANCE
          /\ balances["WBNB"]["bob"] = INITIAL_BALANCE
          /\ executeRebalance("bob", p.vaultId, p, Sign("owner", ThisDomain, p))

SpecRecord == Init /\ [][NextRecord]_vars

\* The step is a successful rebalance of vault id, direct or through the
\* executor.
RebalancedNow(id) ==
    /\ Idle
    /\ last'.op \in {"rebalance", "executeRebalance"}
    /\ last'.err = "ok"
    /\ last'.args[1] = id

\* ------------------------------------------------------------------------
\* C36.  Strategy parameters and lastRebalance change only by a successful
\* rebalance: after the creation of a vault, which stores the parameters
\* given and the creation time, every step that changes vaultStrategies[id]
\* or vaults[id].lastRebalance is a successful rebalance of that vault and
\* sets lastRebalance to the time of the step; deposit, withdraw,
\* attachStrategy, the admin setters, pause/unpause and every failed
\* operation leave both unchanged.
\* ------------------------------------------------------------------------
C36_StrategyRecord ==
    [][ \A id \in IdSpace :
          ( \/ vaultStrategies'[id] # vaultStrategies[id]
            \/ vaults'[id].lastRebalance # vaults[id].lastRebalance )
          => \/ /\ RebalancedNow(id)
                /\ vaults'[id].lastRebalance = now
             \/ /\ Idle
                /\ last'.op = "createVault"
                /\ last'.err = "ok"
                /\ ~Exists(id)
                /\ vaults'[id].lastRebalance = now
                /\ vaultStrategies'[id] = last'.args[3]
      ]_vars

\* A vault that was rebalanced keeps its range and its lastRebalance over a
\* later attachStrategy by its owner.
C36_Witness ==
    /\ last.op = "attachStrategy"
    /\ last.err = "ok"
    /\ vaults[1].strategy = STRATEGY
    /\ vaultStrategies[1].tickLower = RANGE_A.tickLower
    /\ vaults[1].lastRebalance > StartTime
    /\ now > vaults[1].lastRebalance

\* ------------------------------------------------------------------------
\* Rebalance cooldown
\* ------------------------------------------------------------------------

\* StrategyManager.rebalanceCooldown, "Minimum time between rebalances (in
\* seconds)"; no function of StrategyManager is modelled that changes it.
REBALANCE_COOLDOWN == 3600

MaxCharges == 40    \* rebalances run until the recipient has received MaxCharges of token A

\* StrategyManager.checkRebalance, the cooldown branch: the view answers
\* (false, "Cooldown not passed") while
\* block.timestamp < vault.lastRebalance + rebalanceCooldown.
\* VaultManager.rebalance never calls it.
cooldownPassed(vaultId) ==
    ~(now < vaults[vaultId].lastRebalance + REBALANCE_COOLDOWN)

\* The range stored for the vault is the one a rebalance writes, so that a
\* successful rebalance of the vault has already happened.
RebalancedBefore(id) ==
    /\ Exists(id)
    /\ vaultStrategies[id].tickLower = RANGE_A.tickLower

NextCooldown ==
    \/ Tick
    \/ Ack
    \/ (vaultCount = 0 /\ createVault("alice", "WBNB", "USDT", DEFAULT_STRATEGY_PARAMS))
    \/ /\ \A t \in Tokens : balances[t]["alice"] = INITIAL_BALANCE
       /\ deposit("alice", 1, DEPOSIT_AMOUNT, DEPOSIT_AMOUNT)
    \/ (userShares[1]["alice"] > 0 /\ withdraw("alice", 1, userShares[1]["alice"]))
    \/ (protocolFeeBps # MAX_FEE_BPS /\ setProtocolFee(OWNER, MAX_FEE_BPS))
    \/ (~authorizedRelayers[EXECUTOR] /\ setRelayerAuthorization(OWNER, EXECUTOR, TRUE))
    \/ (~authorizedSigners["owner"] /\ setSignerAuthorization(OWNER, "owner", TRUE))
    \/ /\ vaults[1].totalShares > 0
       /\ balances["WBNB"][feeRecipient] < INITIAL_BALANCE + MaxCharges
       /\ rebalance(OWNER, 1, RANGE_A)
    \/ \E p \in SignerPayloads :
          /\ vaults[1].totalShares > 0
          /\ balances["WBNB"][feeRecipient] < INITIAL_BALANCE + MaxCharges
          /\ executeRebalance("bob", p.vaultId, p, Sign("owner", ThisDomain, p))

SpecCooldown == Init /\ [][NextCooldown]_vars

\* ------------------------------------------------------------------------
\* C37.  Minimum time between rebalances: a successful rebalance of a vault
\* that was already rebalanced (direct or through executeRebalance) happens
\* at least rebalanceCooldown seconds after the previous one, so that the
\* protocol fee is not charged on the vault twice within one cooldown
\* period.  VaultManager.rebalance has no such check: the property is
\* violated by two successful rebalances in the same second, each of which
\* charges the fee.
\* ------------------------------------------------------------------------
C37_Cooldown ==
    [][ \A id \in IdSpace :
          (RebalancedNow(id) /\ RebalancedBefore(id)) => cooldownPassed(id)
      ]_vars

\* The second half of the claim on its own: a vault that was rebalanced is
\* not charged the fee again before the cooldown has passed.
C37_FeeOncePerCooldown ==
    [][ \A id \in IdSpace :
          ( /\ RebalancedNow(id)
            /\ RebalancedBefore(id)
            /\ balances'["WBNB"][feeRecipient] > balances["WBNB"][feeRecipient] )
          => cooldownPassed(id)
      ]_vars

\* ------------------------------------------------------------------------
\* Expiry duration
\* ------------------------------------------------------------------------

\* Payloads for vault 1 with every issue time and every expiry of the
\* horizon.
ExpiryPayloads ==
    [ vaultId : {1}, nonce : 0..MaxNonce, actionData : {RANGE_A},
      issuedAt : StartTime..MaxTime, expiry : StartTime..MaxTime ]

NextExpiry ==
    \/ Tick
    \/ Ack
    \/ (vaultCount = 0 /\ createVault("alice", "WBNB", "USDT", DEFAULT_STRATEGY_PARAMS))
    \/ (~authorizedRelayers[EXECUTOR] /\ setRelayerAuthorization(OWNER, EXECUTOR, TRUE))
    \/ (~authorizedSigners["owner"] /\ setSignerAuthorization(OWNER, "owner", TRUE))
    \/ \E a \in 1..MaxAge : setMaxPayloadAge(OWNER, a)
    \/ \E caller \in {OWNER, "bob"}, e \in 1..MaxAge : setMaxExpiryDuration(caller, e)
    \/ \E p \in ExpiryPayloads :
          executeRebalance("bob", p.vaultId, p, Sign("owner", ThisDomain, p))

SpecExpiry == Init /\ [][NextExpiry]_vars

\* payload.expiry is more than maxExpiryDuration after payload.issuedAt
ExpiryTooFar(payload) == payload.expiry > payload.issuedAt + maxExpiryDuration

\* ------------------------------------------------------------------------
\* C38.  Maximum expiry duration: executeRebalance rejects every payload
\* whose expiry is more than maxExpiryDuration after its issuedAt, whatever
\* the value of maxPayloadAge.  executeRebalance never reads
\* maxExpiryDuration: the property is violated by a payload that expires
\* two seconds after its issue under maxExpiryDuration = 1.
\* ------------------------------------------------------------------------
C38_MaxExpiryDuration ==
    (IsExecute(last) /\ ExpiryTooFar(ArgPayload(last))) => last.err # "ok"

\* What the code does with the setting: setMaxExpiryDuration by the owner
\* stores the value and no verdict of executeRebalance depends on it.
C38_ExpiryDurationUnused ==
    [][ (Idle /\ last'.op = "setMaxExpiryDuration")
        => \A p \in ExpiryPayloads, k \in SignerKeys :
              Verdict(k, p)' = Verdict(k, p)
      ]_vars

\* ------------------------------------------------------------------------
\* _sqrt over machine words
\* ------------------------------------------------------------------------

WordBits == 16      \* width of the words _sqrt is applied to (uint256 in the source)

\* type(uint).max for words of WordBits bits
UINT_MAX == 2^WordBits - 1

\* Checked arithmetic (Solidity ^0.8.23) in _sqrt: (x + 1) / 2 is computed
\* for every x # 0 and the addition panics when x + 1 does not fit in a
\* word.  In the loop x / z + z <= x + 1 for 1 <= z <= x, so no other
\* operation of _sqrt can overflow.
sqrtErr(x) ==
    IF x = 0 THEN "ok"
    ELSE IF x + 1 > UINT_MAX THEN "Panic"
    ELSE "ok"

\* Number of iterations of the while loop of _sqrt.
RECURSIVE SqrtSteps(_, _, _)
SqrtSteps(x, y, z) ==
    IF z < y THEN 1 + SqrtSteps(x, z, (x \div z + z) \div 2) ELSE 0

\* One internal call _sqrt(x) of the VaultManager: the value returned is
\* recorded with the call.
sqrt(x) ==
    /\ Idle
    /\ last' = [ op |-> "_sqrt", caller |-> VM, args |-> <<x>>, err |-> sqrtErr(x),
                 ret |-> IF sqrtErr(x) = "ok" THEN _sqrt(x) ELSE 0,
                 steps |-> IF x = 0 \/ sqrtErr(x) # "ok" THEN 0
                           ELSE SqrtSteps(x, x, (x + 1) \div 2) ]
    /\ UNCHANGED <<now, relayVars, execVars, ledgerVars, tokenVars, executed, frame>>

\* Amounts of a first deposit: the minimum, the usual amount and the two
\* factors of UINT_MAX next to its square root.
FirstAmounts ==
    {MIN_DEPOSIT, DEPOSIT_AMOUNT, 2^(WordBits \div 2) - 1, 2^(WordBits \div 2) + 1}

\* The share computation of a deposit into a vault with totalShares = 0:
\* shares = _sqrt(amountA * amountB), the product in checked arithmetic.
firstDepositShares(amountA, amountB) ==
    /\ Idle
    /\ LET err == IF amountA < MIN_DEPOSIT \/ amountB < MIN_DEPOSIT
                  THEN "InsufficientDeposit"
                  ELSE IF amountA * amountB > UINT_MAX THEN "Panic"
                  ELSE sqrtErr(amountA * amountB)
       IN  last' = [ op |-> "firstDepositShares", caller |-> VM,
                     args |-> <<amountA, amountB>>, err |-> err,
                     ret |-> IF err = "ok"
                             THEN depositShares(EmptyVault, amountA, amountB)
                             ELSE 0 ]
    /\ UNCHANGED <<now, relayVars, execVars, ledgerVars, tokenVars, executed, frame>>

NextSqrt ==
    \/ Ack
    \/ (Idle /\ \E x \in 0..UINT_MAX : sqrt(x))
    \/ \E amountA \in FirstAmounts, amountB \in FirstAmounts :
          firstDepositShares(amountA, amountB)

SpecSqrt == Init /\ [][NextSqrt]_vars

\* y is the integer floor of the square root of x
IsFloorSqrt(x, y) == y * y <= x /\ x < (y + 1) * (y + 1)

\* ------------------------------------------------------------------------
\* C39.  _sqrt(x) terminates for every input and returns the integer floor
\* of the square root of x (y*y <= x < (y+1)*(y+1)), with _sqrt(0) = 0; a
\* first deposit whose amounts are each at least MIN_DEPOSIT, and whose
\* product is a word, mints a strictly positive number of shares.  The
\* property is violated at x = UINT_MAX, where (x + 1) / 2 overflows and
\* _sqrt panics instead of returning.
\* ------------------------------------------------------------------------
C39_SqrtFloor ==
    /\ last.op = "_sqrt"
        => /\ last.err = "ok"
           /\ IsFloorSqrt(last.args[1], last.ret)
           /\ (last.args[1] = 0 => last.ret = 0)
    /\ ( /\ last.op = "firstDepositShares"
         /\ last.args[1] * last.args[2] <= UINT_MAX )
        => /\ last.err = "ok"
           /\ last.ret > 0

\* What the code does: for every x below UINT_MAX, _sqrt returns the floor
\* of the square root after at most WordBits iterations of its loop, and
\* _sqrt(UINT_MAX) panics; a first deposit of amounts that are each at
\* least MIN_DEPOSIT mints a positive number of shares unless the product
\* of the amounts is UINT_MAX or more.
C39_SqrtBelowMax ==
    /\ last.op = "_sqrt"
        => IF last.args[1] < UINT_MAX
           THEN /\ last.err = "ok"
                /\ IsFloorSqrt(last.args[1], last.ret)
                /\ (last.args[1] = 0 => last.ret = 0)
                /\ last.steps <= WordBits
           ELSE last.err = "Panic"
    /\ ( /\ last.op = "firstDepositShares"
         /\ last.args[1] * last.args[2] < UINT_MAX )
        => /\ last.err = "ok"
           /\ last.ret > 0
           /\ IsFloorSqrt(last.args[1] * last.args[2], last.ret)

\* ------------------------------------------------------------------------
\* Backend: relayer jobs (POST /relayer/submit-signal, GET /relayer/jobs/:jobId)
\* ------------------------------------------------------------------------

\* A job id no submission returns.
UNKNOWN_JOB == 0

\* txHash of a job that has none (the optional field is absent), and the
\* values the random 64-digit hash ranges over.
NoHash == "none"
TxHashes == {"0x0a", "0x0b"}

\* Request bodies: SubmitSignalRequestSchema accepts a positive integer
\* vaultId and an action of the enum; payload and signature are not read by
\* the handler.
SignalBodies == [ vaultId : {0, 1}, action : {"rebalance", "withdraw_to_stable", "hold"} ]

SchemaAccepts(body) ==
    /\ body.vaultId > 0
    /\ body.action \in {"rebalance", "withdraw_to_stable"}

\* jobs.get(jobId): undefined for an id that was never set
jobsGet(jobId) == IF jobId \in JobIds THEN jobs[jobId] ELSE NoJob

\* POST /api/v1/relayer/submit-signal.  A body the schema rejects is
\* answered with status 400 and nothing is stored.  Otherwise generateId()
\* returns a fresh id (randomUUID), the job is stored as 'queued' without a
\* txHash, its timer is set and the response is {jobId, status: 'queued'}.
submitSignal(body) ==
    /\ Idle
    /\ IF ~SchemaAccepts(body)
       THEN /\ last' = [ op |-> "submitSignal", caller |-> "client", args |-> <<body>>,
                         err |-> "400" ]
            /\ UNCHANGED relayVars
       ELSE \E jobId \in JobIds :
              /\ jobs[jobId] = NoJob
              /\ jobs' = [jobs EXCEPT ![jobId] =
                            [ jobId |-> jobId, vaultId |-> body.vaultId,
                              action |-> body.action, status |-> "queued",
                              txHash |-> NoHash, createdAt |-> now, updatedAt |-> now ]]
              /\ timers' = timers \cup {jobId}
              /\ last' = [ op |-> "submitSignal", caller |-> "client", args |-> <<body>>,
                           err |-> "ok", ret |-> [jobId |-> jobId, status |-> "queued"] ]
    /\ UNCHANGED <<now, execVars, ledgerVars, tokenVars, executed, frame>>

\* the callback completes the oldest queued job instead of its own (mutant)
timerFires_Oldest(jobId) ==
    /\ jobId \in timers
    /\ timers' = timers \ {jobId}
    /\ LET queued == { j \in JobIds : jobs[j].status = "queued" }
           target == IF queued = {} THEN jobId
                     ELSE CHOOSE j \in queued : \A k \in queued : j <= k
       IN  \E hash \in TxHashes :
              jobs' = [jobs EXCEPT ![target].status = "completed",
                                   ![target].txHash = hash,
                                   ![target].updatedAt = now]
    /\ UNCHANGED <<now, execVars, ledgerVars, tokenVars, last, executed, frame>>

\* The setTimeout callback of job jobId runs: the stored job, when there is
\* one, becomes 'completed' with a random txHash.
timerFires(jobId) ==
    /\ jobId \in timers
    /\ timers' = timers \ {jobId}
    /\ IF jobsGet(jobId) # NoJob
       THEN \E hash \in TxHashes :
               jobs' = [jobs EXCEPT ![jobId].status = "completed",
                                    ![jobId].txHash = hash,
                                    ![jobId].updatedAt = now]
       ELSE UNCHANGED jobs
    /\ UNCHANGED <<now, execVars, ledgerVars, tokenVars, last, executed, frame>>

\* GET /api/v1/relayer/jobs/:jobId
getJob(jobId) ==
    /\ Idle
    /\ last' = IF jobsGet(jobId) = NoJob
               THEN [ op |-> "getJob", caller |-> "client", args |-> <<jobId>>,
                      err |-> "404" ]
               ELSE [ op |-> "getJob", caller |-> "client", args |-> <<jobId>>,
                      err |-> "ok", ret |-> jobsGet(jobId) ]
    /\ UNCHANGED <<now, relayVars, execVars, ledgerVars, tokenVars, executed, frame>>

NextJobs ==
    \/ Ack
    \/ \E body \in SignalBodies : submitSignal(body)
    \/ \E jobId \in JobIds : timerFires(jobId)
    \/ \E jobId \in JobIds \cup {UNKNOWN_JOB} : getJob(jobId)

\* While the process keeps running, the event loop runs every timer that
\* was set.
SpecJobs ==
    Init /\ [][NextJobs]_vars /\ \A jobId \in JobIds : WF_vars(timerFires(jobId))

\* The step stores a new job under id.
Created(id) == jobs[id] = NoJob /\ jobs'[id] # NoJob

\* ------------------------------------------------------------------------
\* C40.  Relayer job lifecycle: every job created by submit-signal starts
\* 'queued' without a txHash, under an id no other job has, and is answered
\* with that id; while the process keeps running every job eventually
\* becomes 'completed'; a stored job is never removed and its status only
\* stays or moves from 'queued' to 'completed'; a job has a txHash exactly
\* when it is 'completed'; a timer changes only its own job; polling an id
\* that has no job is answered with not-found.
\* ------------------------------------------------------------------------
C40_JobLifecycle ==
    /\ [][ \A id \in JobIds :
             /\ Created(id)
                => /\ jobs'[id].status = "queued"
                   /\ jobs'[id].txHash = NoHash
                   /\ jobs'[id].jobId = id
                   /\ last'.op = "submitSignal"
                   /\ last'.err = "ok"
                   /\ last'.ret = [jobId |-> id, status |-> "queued"]
                   /\ \A other \in JobIds \ {id} : jobs'[other] = jobs[other]
             /\ jobs[id] # NoJob
                => /\ jobs'[id] # NoJob
                   /\ jobs'[id].status \in {jobs[id].status, "completed"}
                   /\ jobs'[id].status # jobs[id].status => jobs[id].status = "queued"
             /\ (id \in timers /\ id \notin timers')
                => \A other \in JobIds \ {id} : jobs'[other] = jobs[other]
       ]_vars
    /\ [](\A id \in JobIds :
             jobs[id] # NoJob
             => /\ jobs[id].status \in {"queued", "completed"}
                /\ (jobs[id].txHash # NoHash) <=> (jobs[id].status = "completed"))
    /\ []((last.op = "getJob" /\ jobsGet(last.args[1]) = NoJob) => last.err = "404")
    /\ \A id \in JobIds :
          (jobs[id].status = "queued") ~> (jobs[id].status = "completed")

\* Two submissions are in flight together: the first job is completed, with
\* its txHash, while the second is still queued with its timer pending, and
\* a poll of an unknown id has just been answered with not-found.
C40_Witness ==
    /\ \E a, b \in JobIds :
          /\ jobs[a].status = "completed"
          /\ jobs[a].txHash \in TxHashes
          /\ jobs[b].status = "queued"
          /\ b \in timers
          /\ jobs[a].createdAt = jobs[b].createdAt
    /\ last.op = "getJob"
    /\ last.args[1] = UNKNOWN_JOB
    /\ last.err = "404"

====
